---- MODULE Spec2Model ----
(***************************************************************************)
(* A model of the acquisition programs of the SCA framework:               *)
(*   src/src/py/external_capture.py  CW305 + Rigol segmented capture       *)
(*   src/src/py/capture.py           ChipWhisperer capture + trace writer  *)
(*                                                                         *)
(* Both programs are single-threaded.  Each is a sequence of steps driven  *)
(* by a program counter; the recorder, the device and the file system are  *)
(* the environment: every call into them either returns or raises, and the *)
(* values they return are drawn from small sets.                           *)
(*                                                                         *)
(* A waveform is modelled by what the properties need of it: its number of *)
(* samples, whether it is the NaN vector, and which capture of the         *)
(* recorder it holds.  A capture is named by the computation that caused   *)
(* it: [i |-> logical trace, r |-> repetition].                            *)
(***************************************************************************)
EXTENDS Integers, Sequences, FiniteSets, TLC

\* ------------------------------------------------------------------ bounds

\* Largest number of logical traces, largest averaging factor and largest
\* number of computations (traces * repetitions) of one modelled run.
MaxTraces == 3

MaxAvg == 2

MaxSegments == 4

\* The busy-flag poll caps of the two drivers (20000 and 100 in the source)
\* are scaled to this many polls.
PollCap == 2

\* TRACES_PER_FILE (100000 in the source) is scaled to this batch size.
BatchCap == 2

\* Number of writer calls of the trace-writer session that is modelled alone.
MaxCalls == 5

\* preprocess.py: a trace array has at most MaxRows traces and MaxCells
\* samples in all; a finite sample is one of 0 .. MaxSample.
MaxRows == 2

MaxCells == 4

MaxSample == 2

\* ------------------------------------------------------- program constants

\* external_capture.py:67.  Only compared with sample counts, never iterated.
POINTS_PER_SEGMENT == 500

\* external_capture.py:88
RIGOL_READ_TIMEOUT_MS == 120000

\* external_capture.py:91
MAX_SEGMENT_READ_ATTEMPTS == 2

\* external_capture.py:174, the timeout setup_rigol_segmode leaves.
SETUP_TIMEOUT_MS == 30000

\* external_capture.py:390, `if tries > 20000`, scaled.
EXT_POLL_CAP == PollCap

\* capture.py:149, `if i_retry > 100`, scaled.
CW_POLL_CAP == PollCap

\* capture.py:63, `for _ in range (5)`.
LOCK_ADC_TRIES == 5

\* capture.py:23, scope.adc.samples.
ADC_SAMPLES == 150

\* capture.py:188, scaled.
TRACES_PER_FILE == BatchCap

\* ----------------------------------------------------------------- helpers

Max(a, b) == IF a >= b THEN a ELSE b

NoCapture == [i |-> 0, r |-> 0]

Capture(i, r) == [i |-> i, r |-> r]

\* np.full((POINTS_PER_SEGMENT,), np.nan): external_capture.py:264 and :318.
NaNVector == [n |-> POINTS_PER_SEGMENT, nan |-> TRUE, cap |-> NoCapture]

\* volts = (raw - yref) * yinc + yor keeps the size of the raw block
\* (external_capture.py:299-300): the vector has raw.size samples.
Volts(rawSize, cap) == [n |-> rawSize, nan |-> FALSE, cap |-> cap]

VARIABLES
    prog,           \* the program that runs: "ext", "cw" or "writer"
    \* ---- external_capture.py
    N_TRACES,       \* capture plan (module constants of the source)
    AVERAGE_OVER,
    pc,             \* position in main()
    exc,            \* the pending exception of main(), "none" when there is none
    rm,             \* main's locals: "None" or "obj"
    rigol,
    cw305,
    inst,           \* the recorder connection: [opened, closed, timeout]
    rmgr,           \* the VISA resource manager: [opened, closed]
    dev,            \* the device connection: [opened, closed]
    i_pt,           \* index of the logical trace being driven (1-based)
    rep,            \* repetitions done for it
    seg_count,
    tries,          \* busy polls of the running computation
    last_ct,
    metas,          \* list of TraceMeta [pt, key, ct]
    recSegs,        \* the recorder's segment memory: captures in the order taken
    computations,   \* history: the computations started, in order
    idx,            \* readback index
    segs,           \* vectors read back
    main_prev_timeout,
    artifact,       \* what is at SAVE_PATH
    rs,             \* the frame of rigol_read_segment
    \* ---- capture.py: the trace writer (the closure of _create_trace_writer)
    file_counter,
    trace_batch,
    files,          \* the store directory: artifact number -> what is at its path
    appended,       \* history: every trace passed to the writer, in order
    flushLog,       \* history: the serializations started, [num, ok]
    callLog,        \* history: the flush argument of every writer call made
    \* ---- capture.py: __main__ and capture_trace
    cw_N,           \* ktp.N_traces
    cw_avg,         \* ktp.average_over
    cw_pc,
    cw_exc,
    scope,          \* "obj" when the name is in locals(), else "None"
    target,
    scopeConn,      \* the recorder connection: [opened, closed]
    targetConn,     \* the device connection: [opened, closed]
    lock_i,         \* iterations of _lock_adc done
    i_capture,      \* 0-based, as in the source
    i_rep,
    i_retry,
    dut_io,         \* the DutIO of the logical trace being captured
    waves,          \* waves of its repetitions so far
    trace,          \* the TraceExt capture_trace returned
    arms,           \* history: scope.arm() calls of the current repetition
    armFailed,      \* history: the recorder failed to arm
    cw_computations \* history: the computations triggered, in order

extVars == <<N_TRACES, AVERAGE_OVER, pc, exc, rm, rigol, cw305, inst, rmgr, dev,
             i_pt, rep, seg_count, tries, last_ct, metas, recSegs, computations,
             idx, segs, main_prev_timeout, artifact, rs>>

writerVars == <<file_counter, trace_batch, files, appended, flushLog, callLog>>

cwVars == <<cw_N, cw_avg, cw_pc, cw_exc, scope, target, scopeConn, targetConn,
            lock_i, i_capture, i_rep, i_retry, dut_io, waves, trace, arms, armFailed,
            cw_computations>>

VARIABLES
    \* ---- preprocess.py: one call of one of its functions
    call,           \* the function called and its arguments
    ret             \* what the call returned, or that it raised

preVars == <<call, ret>>

VARIABLES
    \* ---- the device under test, as both capture programs drive it
    bus,            \* register accesses and trigger toggles of the computation under way
    dutWrites       \* per computation started: the input and the key written for it

regVars == <<bus, dutWrites>>

VARIABLES
    \* ---- lock_fpga.py: the lock file and the users' calls of lock_fpga
    lockFile,       \* /tmp/fpga_lock.json: whether it exists, its owner, mode and content
    lk,             \* per user: the position in lock_fpga, lock_data, the calls made
    overwrites,     \* every open(LOCK_FILE, 'w') that truncated a lock: who, and whose lock
    told            \* every "FPGA locked by ..." printed: to whom, and the lock in the file then

lockVars == <<lockFile, lk, overwrites, told>>

VARIABLES
    \* ---- util.py: one call of hw_slow, hw or hd
    hwCall          \* the function, its arguments, the loop's a and cnt, the value returned

utilVars == <<hwCall>>

vars == <<prog, extVars, writerVars, cwVars, preVars, regVars, lockVars, utilVars>>

\* Before the first computation nothing has been written to the device.
RegStart == bus = <<>> /\ dutWrites = <<>>

\* target.fpga_write(reg, value) and target.fpga_read(reg, n), as entries of
\* the access log.
RegWrite(reg, val) == [op |-> "write", reg |-> reg, val |-> val]
RegRead(reg, val) == [op |-> "read", reg |-> reg, val |-> val]

\* target.usb_trigger_toggle()
TriggerToggle == [op |-> "toggle", reg |-> "usb_trigger", val |-> 1]

\* The access log with one more access; a poll that repeats the access and
\* the answer logged last is logged once.
Logged(log, a) ==
    IF log # <<>> /\ log[Len(log)] = a THEN log ELSE Append(log, a)

\* The first n entries of a sequence.
Prefix(q, n) == [k \in 1..n |-> q[k]]

\* The key both programs use for every computation of a run.
FIXED_KEY == "FIXED_KEY"

\* ------------------------------------------------ external_capture.py: main

\* total_segments = int(N_TRACES) * max(1, int(AVERAGE_OVER))
total_segments == N_TRACES * Max(1, AVERAGE_OVER)

Reps == Max(1, AVERAGE_OVER)

\* The frame of rigol_read_segment: its position, its arguments and locals, the
\* number of data-read attempts that failed, the number of zero-length answers
\* of the recorder (a segment of 0 points, an empty block), the instrument
\* timeout in force at each attempt, and the value it returns.
RsIdle == [pc |-> "idle", seg |-> 0, n_points |-> 0, calib |-> "none",
           prev_timeout |-> 0, attempt |-> 0, failed |-> 0, empty |-> 0,
           attempt_timeouts |-> <<>>, result |-> NaNVector]

NoArtifact == [state |-> "none", waves |-> <<>>, plaintexts |-> <<>>,
               keys |-> <<>>, ciphertexts |-> <<>>]

ExtStart ==
    /\ N_TRACES \in 0..MaxTraces
    /\ AVERAGE_OVER \in 0..MaxAvg
    /\ total_segments <= MaxSegments
    /\ pc = "setup_rigol"
    /\ exc = "none"
    /\ rm = "None" /\ rigol = "None" /\ cw305 = "None"
    /\ inst = [opened |-> FALSE, closed |-> FALSE, timeout |-> 0]
    /\ rmgr = [opened |-> FALSE, closed |-> FALSE]
    /\ dev = [opened |-> FALSE, closed |-> FALSE]
    /\ i_pt = 0 /\ rep = 0 /\ seg_count = 0 /\ tries = 0
    /\ last_ct = NoCapture
    /\ metas = <<>>
    /\ recSegs = <<>>
    /\ computations = <<>>
    /\ idx = 0
    /\ segs = <<>>
    /\ main_prev_timeout = 0
    /\ artifact = NoArtifact
    /\ rs = RsIdle

ExtIdle ==
    /\ N_TRACES = 0 /\ AVERAGE_OVER = 0
    /\ pc = "off"
    /\ exc = "none"
    /\ rm = "None" /\ rigol = "None" /\ cw305 = "None"
    /\ inst = [opened |-> FALSE, closed |-> FALSE, timeout |-> 0]
    /\ rmgr = [opened |-> FALSE, closed |-> FALSE]
    /\ dev = [opened |-> FALSE, closed |-> FALSE]
    /\ i_pt = 0 /\ rep = 0 /\ seg_count = 0 /\ tries = 0
    /\ last_ct = NoCapture
    /\ metas = <<>>
    /\ recSegs = <<>>
    /\ computations = <<>>
    /\ idx = 0
    /\ segs = <<>>
    /\ main_prev_timeout = 0
    /\ artifact = NoArtifact
    /\ rs = RsIdle

\* An exception raised inside main's try block: control goes to the finally
\* block with the exception pending.
Raise(kind) ==
    /\ exc' = kind
    /\ pc' = "finally"

\* rm, rigol = setup_rigol_segmode(...).  The locals of main are assigned only
\* when the call returns: an exception raised after open_resource leaves the
\* instrument open and main's rigol None.  The last write of the setup,
\* inst.write(":SING"), arms the recorder, once; "arm_fails" is that write
\* raising.
SetupRigol ==
    /\ prog = "ext" /\ pc = "setup_rigol"
    /\ \E outcome \in {"ok", "find_fails", "open_fails", "config_fails", "arm_fails"} :
        CASE outcome = "ok" ->
               /\ rmgr' = [rmgr EXCEPT !.opened = TRUE]
               /\ inst' = [inst EXCEPT !.opened = TRUE, !.timeout = SETUP_TIMEOUT_MS]
               /\ rm' = "obj" /\ rigol' = "obj"
               /\ pc' = "setup_cw305"
               /\ UNCHANGED exc
          [] outcome = "find_fails" ->
               /\ Raise("setup_rigol")
               /\ UNCHANGED <<rmgr, inst, rm, rigol>>
          [] outcome = "open_fails" ->
               /\ rmgr' = [rmgr EXCEPT !.opened = TRUE]
               /\ Raise("setup_rigol")
               /\ UNCHANGED <<inst, rm, rigol>>
          [] outcome = "config_fails" ->
               /\ rmgr' = [rmgr EXCEPT !.opened = TRUE]
               /\ inst' = [inst EXCEPT !.opened = TRUE, !.timeout = SETUP_TIMEOUT_MS]
               /\ Raise("setup_rigol")
               /\ UNCHANGED <<rm, rigol>>
          [] outcome = "arm_fails" ->
               /\ rmgr' = [rmgr EXCEPT !.opened = TRUE]
               /\ inst' = [inst EXCEPT !.opened = TRUE, !.timeout = SETUP_TIMEOUT_MS]
               /\ Raise("arm")
               /\ UNCHANGED <<rm, rigol>>
    /\ UNCHANGED <<prog, writerVars, cwVars, N_TRACES, AVERAGE_OVER, cw305, dev, i_pt, rep, seg_count,
                   tries, last_ct, metas, recSegs, computations, idx, segs,
                   main_prev_timeout, artifact, rs>>

\* cw305 = setup_cw305_standalone(); then the sleep, key, pts, metas = [],
\* seg_count = 0 and the entry of the capture loop.
SetupCw305 ==
    /\ prog = "ext" /\ pc = "setup_cw305"
    /\ \E outcome \in {"ok", "con_fails", "config_fails"} :
        CASE outcome = "ok" ->
               /\ dev' = [dev EXCEPT !.opened = TRUE]
               /\ cw305' = "obj"
               /\ pc' = IF N_TRACES >= 1 THEN "dut_go" ELSE "sync"
               /\ i_pt' = IF N_TRACES >= 1 THEN 1 ELSE 0
               /\ UNCHANGED exc
          [] outcome = "con_fails" ->
               /\ Raise("setup_cw305")
               /\ UNCHANGED <<dev, cw305, i_pt>>
          [] outcome = "config_fails" ->
               /\ dev' = [dev EXCEPT !.opened = TRUE]
               /\ Raise("setup_cw305")
               /\ UNCHANGED <<cw305, i_pt>>
    /\ UNCHANGED <<prog, writerVars, cwVars, N_TRACES, AVERAGE_OVER, rm, rigol, inst, rmgr, rep,
                   seg_count, tries, last_ct, metas, recSegs, computations, idx,
                   segs, main_prev_timeout, artifact, rs>>

\* The tail of every step of main that leaves these variables alone.
ExtSetupUnchanged == UNCHANGED <<prog, writerVars, cwVars, N_TRACES, AVERAGE_OVER, rm, rigol, cw305, rmgr, dev>>

\* A start sequence that sets GO before the input and the key are written.
ExtStartWritesGoFirst(pt, key) ==
    << RegWrite("REG_DUT_GO", 1),
       RegWrite("REG_DUT_DATAIN", pt),
       RegWrite("REG_DUT_KEYIN", key) >>

\* target.fpga_write(REG_DUT_DATAIN, fmt_wr(pt)); target.fpga_write(
\* REG_DUT_KEYIN, fmt_wr(key)); target.fpga_write(REG_DUT_GO, b"\x01")
ExtStartWrites(pt, key) ==
    << RegWrite("REG_DUT_DATAIN", pt),
       RegWrite("REG_DUT_KEYIN", key),
       RegWrite("REG_DUT_GO", 1) >>

\* An entry of dutWrites: the computation and what was written for it.
DutWrite(cap, data, key) == [cap |-> cap, data |-> data, key |-> key]

\* A result register that keeps the output of the first computation.
DutResultOfFirst(started) == started[1]

\* What the result register holds: the output of the computation started
\* last.
DutResult(started) == started[Len(started)]

\* dut_write_go_wait_read, first part: seg_count += 1, then the writes of the
\* input, the key and GO = 1.  The start of the computation raises the trigger
\* pin; the recorder, clocked on its own, takes a capture of it into its next
\* segment or misses it (external_capture.py:68 "widen if missing triggers",
\* :85 "small pause ... to help re-arm").
DutGo ==
    /\ prog = "ext" /\ pc = "dut_go"
    /\ seg_count' = seg_count + 1
    /\ \E outcome \in {"ok", "raise"} :
        IF outcome = "ok"
        THEN /\ computations' = Append(computations, Capture(i_pt, rep + 1))
             /\ \E captured \in BOOLEAN :
                    recSegs' = IF captured
                               THEN Append(recSegs, Capture(i_pt, rep + 1))
                               ELSE recSegs
             /\ tries' = 0
             /\ pc' = "dut_poll"
             /\ bus' = ExtStartWrites(i_pt, FIXED_KEY)
             /\ dutWrites' = Append(dutWrites, DutWrite(Capture(i_pt, rep + 1), i_pt, FIXED_KEY))
             /\ UNCHANGED exc
        ELSE /\ Raise("io")
             /\ \E done \in 0..2 : bus' = Prefix(ExtStartWrites(i_pt, FIXED_KEY), done)
             /\ UNCHANGED <<computations, recSegs, tries, dutWrites>>
    /\ ExtSetupUnchanged
    /\ UNCHANGED <<inst, i_pt, rep, last_ct, metas, idx, segs, main_prev_timeout,
                   artifact, rs>>

\* A poll loop that starts counting anew at the cap instead of raising.
DutPollStepRestarting(busy) ==
    IF busy
    THEN /\ tries' = IF tries + 1 > EXT_POLL_CAP THEN 0 ELSE tries + 1
         /\ UNCHANGED <<pc, exc>>
    ELSE /\ pc' = "dut_read"
         /\ UNCHANGED <<tries, exc>>

\* One iteration of `while target.fpga_read(REG_DUT_GO, 1)[0] == 0x01`:
\* tries += 1; if tries > cap: raise RuntimeError("AES core timeout on CW305").
DutPollStep(busy) ==
    IF busy
    THEN /\ tries' = tries + 1
         /\ IF tries + 1 > EXT_POLL_CAP
            THEN Raise("timeout")
            ELSE UNCHANGED <<pc, exc>>
    ELSE /\ pc' = "dut_read"
         /\ UNCHANGED <<tries, exc>>

DutPoll ==
    /\ prog = "ext" /\ pc = "dut_poll"
    /\ \E busy \in BOOLEAN :
          /\ DutPollStep(busy)
          /\ bus' = Logged(bus, RegRead("REG_DUT_GO", IF busy THEN 1 ELSE 0))
    /\ UNCHANGED dutWrites
    /\ ExtSetupUnchanged
    /\ UNCHANGED <<inst, i_pt, rep, seg_count, last_ct, metas, recSegs,
                   computations, idx, segs, main_prev_timeout, artifact, rs>>

\* A register access of the poll or of the result read raises.
DutIoError ==
    /\ prog = "ext" /\ pc \in {"dut_poll", "dut_read"}
    /\ Raise("io")
    /\ UNCHANGED regVars
    /\ ExtSetupUnchanged
    /\ UNCHANGED <<inst, i_pt, rep, seg_count, tries, last_ct, metas, recSegs,
                   computations, idx, segs, main_prev_timeout, artifact, rs>>

\* TraceMeta(pt=pt, key=key, ct=last_ct).  The plaintext of logical trace i is
\* named i; the ciphertext is named by the computation it was read from.
TraceMeta(pt, ct) == [pt |-> pt, key |-> FIXED_KEY, ct |-> ct]

\* ct = fmt_rd(target.fpga_read(REG_DUT_DATAOUT, 16)); back in main: last_ct,
\* the end of the inner loop, metas.append and the next plaintext.
DutRead ==
    /\ prog = "ext" /\ pc = "dut_read"
    /\ bus' = Append(bus, RegRead("REG_DUT_DATAOUT", DutResult(computations)))
    /\ last_ct' = bus'[Len(bus')].val
    /\ UNCHANGED dutWrites
    /\ IF rep + 1 < Reps
       THEN /\ rep' = rep + 1
            /\ pc' = "dut_go"
            /\ UNCHANGED <<metas, i_pt>>
       ELSE /\ metas' = Append(metas, TraceMeta(i_pt, last_ct'))
            /\ rep' = 0
            /\ IF i_pt < N_TRACES
               THEN i_pt' = i_pt + 1 /\ pc' = "dut_go"
               ELSE i_pt' = i_pt /\ pc' = "sync"
    /\ ExtSetupUnchanged
    /\ UNCHANGED <<exc, inst, seg_count, tries, recSegs, computations, idx, segs,
                   main_prev_timeout, artifact, rs>>

\* *OPC?, :STOP and the two debug queries are each wrapped in try/except and
\* change nothing.  Then prev_timeout = getattr(rigol, "timeout", 30000);
\* rigol.timeout = max(prev_timeout, RIGOL_READ_TIMEOUT_MS); segs = [].
BeginReadback ==
    /\ prog = "ext" /\ pc = "sync"
    /\ \E outcome \in {"ok", "raise"} :
        IF outcome = "ok"
        THEN /\ main_prev_timeout' = inst.timeout
             /\ inst' = [inst EXCEPT !.timeout = Max(inst.timeout, RIGOL_READ_TIMEOUT_MS)]
             /\ idx' = IF total_segments >= 1 THEN 1 ELSE 0
             /\ pc' = IF total_segments >= 1 THEN "readback" ELSE "build"
             /\ UNCHANGED exc
        ELSE /\ Raise("io")
             /\ UNCHANGED <<main_prev_timeout, inst, idx>>
    /\ ExtSetupUnchanged
    /\ UNCHANGED <<i_pt, rep, seg_count, tries, last_ct, metas, recSegs,
                   computations, segs, artifact, rs>>

\* ------------------------------------ external_capture.py: rigol_read_segment

\* The steps of rigol_read_segment change its frame and the instrument only.
RsFrame == UNCHANGED <<prog, writerVars, cwVars, N_TRACES, AVERAGE_OVER, pc, exc, rm, rigol, cw305,
                       rmgr, dev, i_pt, rep, seg_count, tries, last_ct, metas,
                       recSegs, computations, idx, segs, main_prev_timeout,
                       artifact>>

\* What the recorder holds in segment k: its k-th capture, or nothing when it
\* took fewer than k captures.
SegmentOf(k) == IF k \in 1..Len(recSegs) THEN recSegs[k] ELSE NoCapture

\* Sizes of a non-empty raw block returned by :WAV:DATA?
DataSizes == {POINTS_PER_SEGMENT, POINTS_PER_SEGMENT - 1}

\* Point counts the instrument reports when a point-count query succeeds.
PointReports == {0, POINTS_PER_SEGMENT, POINTS_PER_SEGMENT - 1}

\* rigol_select_segment(inst, seg_index): inst.write(":WAV:SEGM ..."), outside
\* any try block.
RsSelect ==
    /\ prog \in {"ext", "segment"} /\ rs.pc = "select"
    /\ \E outcome \in {"ok", "raise"} :
        rs' = [rs EXCEPT !.pc = IF outcome = "ok" THEN "points" ELSE "raised"]
    /\ UNCHANGED inst
    /\ RsFrame

\* n_points = rigol_get_points_for_selected_segment(inst), which returns None
\* when both of its queries fail; None falls back to POINTS_PER_SEGMENT and 0
\* returns the NaN vector.
RsPoints ==
    /\ prog \in {"ext", "segment"} /\ rs.pc = "points"
    /\ \E queryFails \in BOOLEAN, reported \in PointReports :
        LET n == IF queryFails THEN POINTS_PER_SEGMENT ELSE reported IN
        IF n = 0
        THEN rs' = [rs EXCEPT !.n_points = 0, !.empty = @ + 1,
                             !.result = NaNVector, !.pc = "returned"]
        ELSE rs' = [rs EXCEPT !.n_points = n, !.pc = "calib"]
    /\ UNCHANGED inst
    /\ RsFrame

\* The YINC/YREF/YOR queries (defaults when one fails), then
\* prev_timeout = getattr(inst, "timeout", 30000) and
\* inst.timeout = max(prev_timeout, RIGOL_READ_TIMEOUT_MS), outside any try.
RsCalib ==
    /\ prog \in {"ext", "segment"} /\ rs.pc = "calib"
    /\ \E calib \in {"queried", "defaults"}, outcome \in {"ok", "raise"} :
        IF outcome = "ok"
        THEN /\ rs' = [rs EXCEPT !.calib = calib, !.prev_timeout = inst.timeout,
                                 !.attempt = 1, !.pc = "attempt"]
             /\ inst' = [inst EXCEPT !.timeout = Max(inst.timeout, RIGOL_READ_TIMEOUT_MS)]
        ELSE /\ rs' = [rs EXCEPT !.calib = calib, !.pc = "raised"]
             /\ UNCHANGED inst
    /\ RsFrame

\* The frame after the body of one iteration of the attempt loop, before its
\* finally clause: a non-empty block returns the calibrated vector; an empty
\* block, a VisaIOError or any other exception goes to the next attempt, and
\* after the last attempt the function returns the NaN vector.
AttemptBody(outcome, size) ==
    LET seen == [rs EXCEPT !.attempt_timeouts = Append(@, inst.timeout),
                           !.empty = IF outcome = "empty" THEN @ + 1 ELSE @] IN
    IF outcome = "data"
    THEN [seen EXCEPT !.result = Volts(size, SegmentOf(rs.seg)), !.pc = "returned"]
    ELSE IF rs.attempt < MAX_SEGMENT_READ_ATTEMPTS
         THEN [seen EXCEPT !.failed = @ + 1, !.attempt = @ + 1]
         ELSE [seen EXCEPT !.failed = @ + 1, !.attempt = @ + 1,
                           !.result = NaNVector, !.pc = "returned"]

\* The finally clause of the iteration, inst.timeout = prev_timeout, runs on
\* every way out of the try; when the assignment raises, its exception replaces
\* the return or the continue.
AttemptFinally(after, restore) ==
    IF restore = "ok"
    THEN /\ inst' = [inst EXCEPT !.timeout = rs.prev_timeout]
         /\ rs' = after
    ELSE /\ UNCHANGED inst
         /\ rs' = [after EXCEPT !.pc = "raised"]

RsAttempt ==
    /\ prog \in {"ext", "segment"} /\ rs.pc = "attempt"
    /\ \E outcome \in {"VisaIOError", "Exception", "empty"}, restore \in {"ok", "raise"} :
        AttemptFinally(AttemptBody(outcome, 0), restore)
    /\ RsFrame

\* A read that returns a block: the block of the selected segment.  A segment
\* the recorder never filled has no block to return.
RsAttemptData ==
    /\ prog \in {"ext", "segment"} /\ rs.pc = "attempt"
    /\ rs.seg \in 1..Len(recSegs)
    /\ \E size \in DataSizes, restore \in {"ok", "raise"} :
        AttemptFinally(AttemptBody("data", size), restore)
    /\ RsFrame

\* -------------------------------------- external_capture.py: main, readback

\* seg = rigol_read_segment(rigol, idx): the call.
ReadbackCall ==
    /\ prog = "ext" /\ pc = "readback" /\ rs.pc = "idle"
    /\ rs' = [RsIdle EXCEPT !.pc = "select", !.seg = idx]
    /\ UNCHANGED inst
    /\ RsFrame

\* segs.append(seg) and the next index; an exception of the call propagates.
ReadbackReturn ==
    /\ prog = "ext" /\ pc = "readback" /\ rs.pc \in {"returned", "raised"}
    /\ IF rs.pc = "returned"
       THEN /\ segs' = Append(segs, rs.result)
            /\ IF idx < total_segments
               THEN idx' = idx + 1 /\ pc' = "readback"
               ELSE idx' = idx /\ pc' = "build"
            /\ UNCHANGED exc
       ELSE /\ Raise("read_segment")
            /\ UNCHANGED <<segs, idx>>
    /\ rs' = RsIdle
    /\ ExtSetupUnchanged
    /\ UNCHANGED <<inst, i_pt, rep, seg_count, tries, last_ct, metas, recSegs,
                   computations, main_prev_timeout, artifact>>

\* ------------------------------- external_capture.py: main, build and save

\* np.asarray(segs, dtype=np.float32) raises ValueError on rows of different
\* lengths.
Ragged(s) == \E a, b \in 1..Len(s) : s[a].n # s[b].n

\* One stored waveform: the element-wise mean of its parts.  The mean of one
\* vector is that vector; a NaN part makes the mean NaN.
Waveform(parts) ==
    [n |-> parts[1].n,
     nan |-> \E j \in 1..Len(parts) : parts[j].nan,
     parts |-> parts]

\* The rows left as read, one waveform per segment.
GroupMeanNoReshape(s, n, a) == [i \in 1..Len(s) |-> Waveform(<<s[i]>>)]

\* segs.reshape(N_TRACES, AVERAGE_OVER, -1).mean(axis=1): row i is the mean of
\* rows (i-1)*AVERAGE_OVER + 1 .. i*AVERAGE_OVER.
GroupMean(s, n, a) ==
    [i \in 1..n |-> Waveform([j \in 1..a |-> s[(i - 1) * a + j]])]

\* Without averaging every row is stored as read.
Ungrouped(s) == [i \in 1..Len(s) |-> Waveform(<<s[i]>>)]

\* Lines 487-491: the waves array, or "ValueError" when numpy raises: rows of
\* different lengths, or the reshape of an empty array with an inferred axis.
WavesArray ==
    IF AVERAGE_OVER > 1
    THEN GroupMean(segs, N_TRACES, AVERAGE_OVER)
    ELSE Ungrouped(segs)

BuildRaises ==
    \/ Ragged(segs)
    \/ AVERAGE_OVER > 1 /\ Len(segs) = 0

\* The file np.savez_compressed leaves at the path it is given.  It opens the
\* archive at that path and writes one array after the other into it: when a
\* write raises part-way, the archive with the arrays written so far stays.
SavedArtifact(outcome, w) ==
    CASE outcome = "ok" ->
           [state |-> "complete", waves |-> w,
            plaintexts |-> [i \in 1..Len(metas) |-> metas[i].pt],
            keys |-> [i \in 1..Len(metas) |-> metas[i].key],
            ciphertexts |-> [i \in 1..Len(metas) |-> metas[i].ct]]
      [] outcome = "fail_partial" ->
           [state |-> "partial", waves |-> w, plaintexts |-> <<>>,
            keys |-> <<>>, ciphertexts |-> <<>>]
      [] OTHER -> artifact

SaveOutcomes == {"ok", "fail_unopened", "fail_partial"}

\* rigol.timeout = prev_timeout; np.asarray; the averaging; the metadata
\* arrays; np.savez_compressed(SAVE_PATH, ...).
BuildAndSave ==
    /\ prog = "ext" /\ pc = "build"
    /\ \E restore \in {"ok", "raise"}, outcome \in SaveOutcomes :
        IF restore = "raise"
        THEN /\ Raise("io")
             /\ UNCHANGED <<inst, artifact>>
        ELSE /\ inst' = [inst EXCEPT !.timeout = main_prev_timeout]
             /\ IF BuildRaises
                THEN /\ Raise("ValueError")
                     /\ UNCHANGED artifact
                ELSE /\ artifact' = SavedArtifact(outcome, WavesArray)
                     /\ exc' = IF outcome = "ok" THEN "none" ELSE "save"
                     /\ pc' = "finally"
    /\ ExtSetupUnchanged
    /\ UNCHANGED <<i_pt, rep, seg_count, tries, last_ct, metas, recSegs,
                   computations, idx, segs, main_prev_timeout, rs>>

\* The finally block of main: `if rigol: rigol.close()`, `if cw305:
\* cw305.dis()`, `if rm: rm.close()`, each in its own try/except that swallows
\* the failure; then the pending exception, if any, is re-raised.
Released(conn, local) == IF local = "obj" THEN [conn EXCEPT !.closed = TRUE] ELSE conn

ExtFinally ==
    /\ prog = "ext" /\ pc = "finally"
    /\ inst' = Released(inst, rigol)
    /\ dev' = Released(dev, cw305)
    /\ rmgr' = Released(rmgr, rm)
    /\ pc' = IF exc = "none" THEN "returned" ELSE "raised"
    /\ UNCHANGED <<prog, writerVars, cwVars, N_TRACES, AVERAGE_OVER, exc, rm, rigol, cw305, i_pt, rep,
                   seg_count, tries, last_ct, metas, recSegs, computations, idx,
                   segs, main_prev_timeout, artifact, rs>>

ExtNext ==
    \/ SetupRigol /\ UNCHANGED regVars
    \/ SetupCw305 /\ UNCHANGED regVars
    \/ DutGo
    \/ DutPoll
    \/ DutIoError
    \/ DutRead
    \/ BeginReadback /\ UNCHANGED regVars
    \/ ReadbackCall /\ UNCHANGED regVars
    \/ RsSelect /\ UNCHANGED regVars
    \/ RsPoints /\ UNCHANGED regVars
    \/ RsCalib /\ UNCHANGED regVars
    \/ RsAttempt /\ UNCHANGED regVars
    \/ RsAttemptData /\ UNCHANGED regVars
    \/ ReadbackReturn /\ UNCHANGED regVars
    \/ BuildAndSave /\ UNCHANGED regVars
    \/ ExtFinally /\ UNCHANGED regVars

\* --------------------------------------- capture.py: _create_trace_writer

EmptyStore == [k \in {} |-> 0]

\* file_counter = 0; trace_batch = []; os.makedirs(STORE_PATH, exist_ok=True)
WriterStart ==
    /\ file_counter = 0
    /\ trace_batch = <<>>
    /\ files = EmptyStore
    /\ appended = <<>>
    /\ flushLog = <<>>
    /\ callLog = <<>>

\* TraceExt(wave, dut_io, trig_count) with dut_io = DutIO(data, key, computed_data)
TraceExt(wave, data, computed_data) ==
    [wave |-> wave, dut_io |-> [data |-> data, computed_data |-> computed_data]]

\* A flush that waits for the batch to exceed TRACES_PER_FILE.
FlushDueStrict(batch, flush) == flush \/ Len(batch) > TRACES_PER_FILE

\* `if flush or (len(trace_batch) >= TRACES_PER_FILE)`, after the append.
FlushDue(batch, flush) == flush \/ Len(batch) >= TRACES_PER_FILE

\* The three arrays np.savez_compressed is given, each built from trace_batch.
BatchArtifact(batch) ==
    [state |-> "complete",
     wave |-> [k \in 1..Len(batch) |-> batch[k].wave],
     dut_io_data |-> [k \in 1..Len(batch) |-> batch[k].dut_io.data],
     dut_io_computed_data |-> [k \in 1..Len(batch) |-> batch[k].dut_io.computed_data]]

\* What np.savez_compressed(f"{STORE_PATH}/traces_{file_counter}.npz", ...)
\* leaves in the store.  The path it is given is the artifact's final path:
\* the archive is created there and filled array by array, so a write that
\* raises part-way leaves the archive with the arrays written so far.
StoreAfterSave(store, num, outcome, batch) ==
    CASE outcome = "ok" ->
           [k \in DOMAIN store \cup {num} |->
               IF k = num THEN BatchArtifact(batch) ELSE store[k]]
      [] outcome = "fail_partial" ->
           [k \in DOMAIN store \cup {num} |->
               IF k = num
               THEN [BatchArtifact(batch) EXCEPT !.state = "partial",
                                                 !.dut_io_data = <<>>,
                                                 !.dut_io_computed_data = <<>>]
               ELSE store[k]]
      [] OTHER -> store

\* A writer that clears the batch whether or not the save returned.
BatchClearedAlways(batch, outcome) == <<>>

\* trace_batch.clear() and file_counter += 1 run only when the save returned.
BatchAfterFlush(batch, outcome) == IF outcome = "ok" THEN <<>> ELSE batch

CounterAfterFlush(counter, outcome) == IF outcome = "ok" THEN counter + 1 ELSE counter

\* write_traces_to_disk(trace, flush), with the outcome of the save it may do.
write_traces_to_disk(t, flush, outcome) ==
    LET batch == Append(trace_batch, t) IN
    /\ appended' = Append(appended, t)
    /\ callLog' = Append(callLog, flush)
    /\ IF FlushDue(batch, flush)
       THEN /\ files' = StoreAfterSave(files, file_counter, outcome, batch)
            /\ trace_batch' = BatchAfterFlush(batch, outcome)
            /\ file_counter' = CounterAfterFlush(file_counter, outcome)
            /\ flushLog' = Append(flushLog, [num |-> file_counter, ok |-> outcome = "ok"])
       ELSE /\ trace_batch' = batch
            /\ UNCHANGED <<files, file_counter, flushLog>>

\* Whether that call raises: the exception of the save propagates.
WriterRaises(t, flush, outcome) ==
    FlushDue(Append(trace_batch, t), flush) /\ outcome # "ok"

\* A session of the writer alone: any sequence of calls, each with any flush
\* flag; a caller may go on calling after a call raised.
SessionTrace(k) ==
    TraceExt(Waveform(<<Volts(POINTS_PER_SEGMENT, Capture(k, 1))>>), k, Capture(k, 1))

WriterCall ==
    /\ prog = "writer" /\ Len(callLog) < MaxCalls
    /\ \E flush \in BOOLEAN, outcome \in SaveOutcomes :
        write_traces_to_disk(SessionTrace(Len(callLog) + 1), flush, outcome)
    /\ UNCHANGED <<prog, extVars, cwVars>>

\* ------------------------------------------------------------ preprocess.py

\* A sample of a trace: a finite number, NaN or an infinity.  Finite samples
\* are integers; every quantity computed from them is kept as an integer
\* numerator over a positive denominator, so that the arithmetic is exact.
Fin(v) == [c |-> "fin", v |-> v]

NaN == [c |-> "nan", v |-> 0]

PInf == [c |-> "pinf", v |-> 0]

NInf == [c |-> "ninf", v |-> 0]

Min(a, b) == IF a <= b THEN a ELSE b

Abs(a) == IF a >= 0 THEN a ELSE 0 - a

RECURSIVE SumSeq(_)
SumSeq(q) == IF q = <<>> THEN 0 ELSE q[1] + SumSeq(Tail(q))

\* x[lo:hi] of a sequence indexed from 0, with Python's clipping of the stop.
Slice(q, lo, hi) == [j \in 1..Max(0, Min(hi, Len(q)) - lo) |-> q[lo + j]]

\* The trace arrays a call is given: N >= 1 rows of T >= 1 samples each.
TraceArrays(samples) ==
    UNION {[1..sh[1] -> [1..sh[2] -> samples]] :
              sh \in {x \in (1..MaxRows) \X (1..MaxCells) : x[1] * x[2] <= MaxCells}}

FiniteSamples == {Fin(v) : v \in 0..MaxSample}

NRows(traces) == Len(traces)

\* traces.shape[1]
NPoints(traces) == Len(traces[1])

\* np.nan_to_num(traces, nan=0.0) on a finite or NaN sample.
NanToNum(x) == IF x.c = "nan" THEN 0 ELSE x.v

\* np.abs(np.diff(row)): one entry per pair of neighbours.
AbsDiff(row) ==
    [i \in 1..(Len(row) - 1) |-> Abs(NanToNum(row[i + 1]) - NanToNum(row[i]))]

\* deriv.mean(axis=0), times the number of traces.
Activity(traces) ==
    [i \in 1..(NPoints(traces) - 1) |->
        SumSeq([n \in 1..NRows(traces) |-> AbsDiff(traces[n])[i]])]

\* np.convolve(x, np.ones(k), mode="same"): the k-fold of the moving average.
\* The result has max(len(x), k) entries: entry j is entry j + offset of the
\* full convolution, offset = (min(len(x), k) - 1) // 2.
ConvolveSame(x, k) ==
    LET m == Len(x)
        offset == (Min(m, k) - 1) \div 2
        Full(j) == SumSeq([i \in 1..m |-> IF j - (i - 1) \in 0..(k - 1) THEN x[i] ELSE 0])
    IN [j \in 1..Max(m, k) |-> Full(j - 1 + offset)]

\* _moving_average(x, k) of a non-empty x, times Scale(k).
Scale(k) == IF k <= 1 THEN 1 ELSE k

MovingAverage(x, k) == IF k <= 1 THEN x ELSE ConvolveSame(x, k)

\* np.convolve raises ValueError on an empty array.
MovingAverageRaises(x, k) == k > 1 /\ x = <<>>

\* THRESH_STD = 3.0
THRESH_STD == 3

\* baseline_end = max(1, pre_samples // 2) and activity_s[:baseline_end].
BaselineOf(activity_s, pre_samples) == Slice(activity_s, 0, Max(1, pre_samples \div 2))

\* activity_s[j] > thr, with thr = mu + thresh_std * sigma, mu and sigma the
\* mean and the standard deviation of the baseline part and sigma = 1e-9 when
\* that deviation is not positive.  With nb baseline entries of sum s1 and sum
\* of squares s2, nb * v - s1 is nb * (v - mu) and nb * s2 - s1 * s1 is
\* (nb * sigma)^2.  An empty baseline has mean NaN, and nothing exceeds NaN.
Exceeds(v, base) ==
    LET nb == Len(base)
        s1 == SumSeq(base)
        s2 == SumSeq([j \in 1..nb |-> base[j] * base[j]])
        d  == nb * v - s1
        var == nb * s2 - s1 * s1
    IN /\ nb > 0
       /\ d > 0
       /\ var > 0 => d * d > THRESH_STD * THRESH_STD * var

\* np.where(active_mask)[0]: the indices, from 0, of the entries above thr.
ActiveIdxs(activity_s, pre_samples) ==
    {j \in 0..(Len(activity_s) - 1) :
        Exceeds(activity_s[j + 1], BaselineOf(activity_s, pre_samples))}

SetMin(S) == CHOOSE x \in S : \A y \in S : x <= y

SetMax(S) == CHOOSE x \in S : \A y \in S : x >= y

\* A detection that ends the window at the last active derivative index,
\* without the step from derivative index to sample index.
detect_encryption_window_no_step(traces, pre_samples, smooth_k, margin) ==
    LET activity == Activity(traces)
        activity_s == MovingAverage(activity, smooth_k)
        idxs == ActiveIdxs(activity_s, pre_samples)
    IN IF MovingAverageRaises(activity, smooth_k)
       THEN [done |-> TRUE, raised |-> TRUE, start |-> 0, end |-> 0]
       ELSE IF idxs = {}
            THEN [done |-> TRUE, raised |-> FALSE, start |-> 0, end |-> NPoints(traces)]
            ELSE [done |-> TRUE, raised |-> FALSE,
                  start |-> Max(0, SetMin(idxs) - margin),
                  end |-> Min(NPoints(traces), SetMax(idxs) + margin)]

\* detect_encryption_window(traces, pre_samples, smooth_k, thresh_std, margin).
detect_encryption_window(traces, pre_samples, smooth_k, margin) ==
    LET activity == Activity(traces)
        activity_s == MovingAverage(activity, smooth_k)
        idxs == ActiveIdxs(activity_s, pre_samples)
    IN IF MovingAverageRaises(activity, smooth_k)
       THEN [done |-> TRUE, raised |-> TRUE, start |-> 0, end |-> 0]
       ELSE IF idxs = {}
            THEN [done |-> TRUE, raised |-> FALSE, start |-> 0, end |-> NPoints(traces)]
            ELSE [done |-> TRUE, raised |-> FALSE,
                  start |-> Max(0, SetMin(idxs) - margin),
                  end |-> Min(NPoints(traces), SetMax(idxs) + 2 + margin)]

\* np.argmax(x): the first index, from 0, of the largest entry.
ArgMax(x) == SetMin({j \in 0..(Len(x) - 1) : \A i \in 1..Len(x) : x[j + 1] >= x[i]})

\* find_alignment_indices(traces, (s0, e0)): one event index per trace.
find_alignment_indices(traces, s0, e0) ==
    LET s == Max(0, s0)
        e == Min(NPoints(traces), e0)
        s_d == s
        e_d == Max(s_d + 1, e - 1)
    IN IF e <= s + 1
       THEN [i \in 1..NRows(traces) |-> NPoints(traces) \div 2]
       ELSE [i \in 1..NRows(traces) |->
                ArgMax(Slice(AbsDiff(traces[i]), s_d, e_d)) + s_d + 1]

\* A roll that moves every sample one place too far.
RollOneTooFar(row, shift) ==
    [j \in 1..Len(row) |-> row[((j - 1 - shift - 1) % Len(row)) + 1]]

\* A roll in the opposite direction.
RollBackwards(row, shift) ==
    [j \in 1..Len(row) |-> row[((j - 1 + shift) % Len(row)) + 1]]

\* np.roll(row, shift): the sample at index i moves to index (i + shift) mod T.
Roll(row, shift) ==
    [j \in 1..Len(row) |-> row[((j - 1 - shift) % Len(row)) + 1]]

\* align_traces_roll(traces, event_indices, ref_index).
align_traces_roll(traces, event_indices, ref_index) ==
    [i \in 1..NRows(traces) |-> Roll(traces[i], ref_index - event_indices[i])]

\* A crop window that is clamped to the trace and not shifted back.
CropWindowNotShifted(start, end, n_points, ref_idx) ==
    LET win_len == end - start
        new_start == Max(0, ref_idx - (win_len \div 2))
        new_end == Min(n_points, new_start + win_len)
    IN [start |-> new_start, end |-> new_end]

\* preprocess_and_save, after the roll: win_len = end - start; new_start =
\* max(0, ref_idx - win_len // 2); new_end = min(T, new_start + win_len); and
\* `if new_end - new_start < win_len and new_start > 0: new_start = max(0,
\* new_end - win_len)`.
CropWindow(start, end, n_points, ref_idx) ==
    LET win_len == end - start
        new_start == Max(0, ref_idx - (win_len \div 2))
        new_end == Min(n_points, new_start + win_len)
    IN IF new_end - new_start < win_len /\ new_start > 0
       THEN [start |-> Max(0, new_end - win_len), end |-> new_end]
       ELSE [start |-> new_start, end |-> new_end]

\* ---- crop_baseline_normalize

\* IEEE addition on a finite number, NaN or an infinity.
XAdd(x, y) ==
    IF x.c = "nan" \/ y.c = "nan" THEN NaN
    ELSE IF x.c = "fin" /\ y.c = "fin" THEN Fin(x.v + y.v)
    ELSE IF x.c = "fin" THEN y
    ELSE IF y.c = "fin" THEN x
    ELSE IF x.c = y.c THEN x
    ELSE NaN

XNeg(x) ==
    CASE x.c = "fin" -> Fin(0 - x.v)
      [] x.c = "pinf" -> NInf
      [] x.c = "ninf" -> PInf
      [] OTHER -> NaN

\* The k-fold of x, k > 0.
XScale(k, x) == IF x.c = "fin" THEN Fin(k * x.v) ELSE x

RECURSIVE XSum(_)
XSum(q) == IF q = <<>> THEN Fin(0) ELSE XAdd(q[1], XSum(Tail(q)))

AllFinite(row) == \A j \in 1..Len(row) : row[j].c = "fin"

\* np.convolve(x, np.ones(k), mode="same") on such samples: an entry is the
\* sum of the samples its window covers.
XConvolveSame(x, k) ==
    LET m == Len(x)
        offset == (Min(m, k) - 1) \div 2
        Covered(j) == {i \in 1..m : j - (i - 1) \in 0..(k - 1)}
        Full(j) == XSum([i \in 1..m |-> IF i \in Covered(j) THEN x[i] ELSE Fin(0)])
    IN [j \in 1..Max(m, k) |-> Full(j - 1 + offset)]

\* A trace on its way through crop_baseline_normalize: sample j is
\* num[j] / den, divided by sigma when normed, where sigma * sigma is
\* var.num / var.den.
NoVar == [num |-> 1, den |-> 1]

RowOf(num, den) == [num |-> num, den |-> den, normed |-> FALSE, var |-> NoVar]

\* n * n times the variance of the numbers q[1] .. q[n].
VarNum(q) ==
    Len(q) * SumSeq([j \in 1..Len(q) |-> q[j] * q[j]]) - SumSeq(q) * SumSeq(q)

Values(num) == [j \in 1..Len(num) |-> num[j].v]

\* a = max(0, a); b = min(cropped.shape[1], b); the samples the baseline is
\* the mean of: all of them when b <= a.
BaselinePart(q, a0, b0) ==
    LET a == Max(0, a0)
        b == Min(Len(q), b0)
    IN IF b <= a THEN q ELSE Slice(q, a, b)

\* cropped - baseline
SubtractBaseline(row, a0, b0) ==
    LET part == BaselinePart(row.num, a0, b0)
        n == Len(part)
    IN RowOf([j \in 1..Len(row.num) |-> XAdd(XScale(n, row.num[j]), XNeg(XSum(part)))],
             n * row.den)

\* slow_k = max(3, int(cropped.shape[1] * 0.05))
MinSlowK == 3

SlowK(len) == Max(MinSlowK, len \div 20)

\* cropped - slow raises when the two shapes do not broadcast: the moving
\* average has max(len, slow_k) entries.
DetrendRaises(len) == len # 1 /\ len # Max(len, SlowK(len))

\* cropped - slow; a row of one sample is broadcast over the entries of slow.
Detrend(row) ==
    LET k == SlowK(Len(row.num))
        slow == XConvolveSame(row.num, k)
        At(j) == IF Len(row.num) = 1 THEN row.num[1] ELSE row.num[j]
    IN RowOf([j \in 1..Len(slow) |-> XAdd(XScale(k, At(j)), XNeg(slow[j]))], k * row.den)

\* A normalization that divides by the deviation also where it is 0: every
\* sample becomes 0 / 0.
NormalizeByZero(row) ==
    IF ~AllFinite(row.num) \/ VarNum(Values(row.num)) = 0
    THEN [row EXCEPT !.num = [j \in 1..Len(row.num) |-> NaN]]
    ELSE [row EXCEPT !.normed = TRUE,
                     !.var = [num |-> VarNum(Values(row.num)),
                              den |-> Len(row.num) * Len(row.num) * row.den * row.den]]

\* cropped / std, with std = 1 where it is 0.  The deviation of a row with a
\* sample that is not finite is NaN, and so is every sample divided by it.
Normalize(row) ==
    IF ~AllFinite(row.num)
    THEN [row EXCEPT !.num = [j \in 1..Len(row.num) |-> NaN]]
    ELSE IF VarNum(Values(row.num)) = 0
         THEN row
         ELSE [row EXCEPT !.normed = TRUE,
                          !.var = [num |-> VarNum(Values(row.num)),
                                   den |-> Len(row.num) * Len(row.num) * row.den * row.den]]

\* _moving_average(row, smooth_k) of the final smoothing.
Smooth(row, smooth_k) ==
    IF smooth_k <= 1
    THEN row
    ELSE [row EXCEPT !.num = XConvolveSame(row.num, smooth_k), !.den = smooth_k * row.den]

\* crop_baseline_normalize(traces, start, end, baseline_window, detrend,
\* normalize, smooth_k): the rows, or that the call raised.
CropRow(row, start, end, bw, detrend, normalize, smooth_k) ==
    LET cropped == RowOf(Slice(row, start, end), 1)
        based == SubtractBaseline(cropped, bw[1], bw[2])
        detrended == IF detrend THEN Detrend(based) ELSE based
        normed == IF normalize THEN Normalize(detrended) ELSE detrended
    IN Smooth(normed, smooth_k)

crop_baseline_normalize(traces, start, end, bw, detrend, normalize, smooth_k) ==
    IF detrend /\ DetrendRaises(Min(end, NPoints(traces)) - start)
    THEN [done |-> TRUE, raised |-> TRUE, rows |-> <<>>]
    ELSE [done |-> TRUE, raised |-> FALSE,
          rows |-> [i \in 1..NRows(traces) |->
                       CropRow(traces[i], start, end, bw, detrend, normalize, smooth_k)]]

\* ---- preprocess_and_save: the metadata, the bad-trace filter, the save

\* BASELINE_WINDOW, DETREND, NORMALIZE, SMOOTH_K_FINAL
BASELINE_WINDOW == <<0, 20>>

DETREND == TRUE

NORMALIZE == TRUE

SMOOTH_K_FINAL == 3

\* A metadata array: None, or one entry per row; entry i of the file is named i.
None == [present |-> FALSE, rows |-> <<>>]

MetaArray(n) == [present |-> TRUE, rows |-> [i \in 1..n |-> i]]

\* A length check that lets every metadata array pass.
MatchingOrNoneKept(meta, n_traces) == meta

\* `if plaintexts is not None and plaintexts.shape[0] != n_traces:
\* plaintexts = None`, and the same for ciphertexts and keys.
MatchingOrNone(meta, n_traces) ==
    IF meta.present /\ Len(meta.rows) # n_traces THEN None ELSE meta

\* np.isnan(processed).any(axis=1)
nan_mask(row) == \E j \in 1..Len(row.num) : row.num[j].c = "nan"

\* np.isclose(processed.std(axis=1), 0.0): the deviation of a row with a
\* sample that is not finite is NaN, which is not close to 0.
const_mask(row) == AllFinite(row.num) /\ VarNum(Values(row.num)) = 0

\* A filter that looks for NaN samples only.
bad_mask_nan_only(row) == nan_mask(row)

bad_mask(row) == nan_mask(row) \/ const_mask(row)

\* np.where(~bad_mask)[0], as the rising sequence of the indices (from 1) kept.
RECURSIVE GoodIdx(_, _)
GoodIdx(processed, i) ==
    IF i > Len(processed) THEN <<>>
    ELSE IF bad_mask(processed[i]) THEN GoodIdx(processed, i + 1)
         ELSE <<i>> \o GoodIdx(processed, i + 1)

\* x[good_idx]
Take(x, good_idx) == [k \in 1..Len(good_idx) |-> x[good_idx[k]]]

TakeMeta(meta, good_idx) ==
    IF meta.present THEN [meta EXCEPT !.rows = Take(meta.rows, good_idx)] ELSE meta

\* `if n_bad > 0:` the metadata arrays are indexed with good_idx; otherwise
\* they are left as they are.
FilterMeta(meta, n_bad, good_idx) ==
    IF n_bad > 0 THEN TakeMeta(meta, good_idx) ELSE meta

\* Steps 3 to 5 of preprocess_and_save on the aligned array and the crop
\* window: crop_baseline_normalize with the module's configuration, the
\* bad-trace filter, and save_dict.
FilterAndSave(loaded, start, end, plaintexts, ciphertexts, keys) ==
    LET n_traces == NRows(loaded)
        pt == MatchingOrNone(plaintexts, n_traces)
        ct == MatchingOrNone(ciphertexts, n_traces)
        ks == MatchingOrNone(keys, n_traces)
        cropped == crop_baseline_normalize(loaded, start, end, BASELINE_WINDOW, DETREND,
                                           NORMALIZE, SMOOTH_K_FINAL)
        processed == cropped.rows
        good_idx == GoodIdx(processed, 1)
        n_bad == Len(processed) - Len(good_idx)
    IN IF cropped.raised
       THEN [done |-> TRUE, raised |-> TRUE]
       ELSE [done |-> TRUE, raised |-> FALSE,
             processed |-> processed,
             good_idx |-> good_idx,
             waves |-> Take(processed, good_idx),
             plaintexts |-> FilterMeta(pt, n_bad, good_idx),
             ciphertexts |-> FilterMeta(ct, n_bad, good_idx),
             keys |-> FilterMeta(ks, n_bad, good_idx),
             meta_start |-> start, meta_end |-> end]

\* ---- preprocess.py: the calls

PreIdle ==
    /\ call = [fn |-> "none"]
    /\ ret = [done |-> FALSE]

\* The values the detection parameters are drawn from.
PreSampleValues == {2, 4}

SmoothKValues == {1, 3}

MarginValues == 0..1

\* The arrays detection and alignment are given hold finite and NaN samples.
CallDetect ==
    \E traces \in TraceArrays(FiniteSamples \cup {NaN}), pre_samples \in PreSampleValues,
       smooth_k \in SmoothKValues, margin \in MarginValues :
        call = [fn |-> "detect_encryption_window", traces |-> traces,
                pre_samples |-> pre_samples, smooth_k |-> smooth_k, margin |-> margin]

ReturnDetect ==
    /\ prog = "pre" /\ call.fn = "detect_encryption_window" /\ ~ret.done
    /\ ret' = detect_encryption_window(call.traces, call.pre_samples, call.smooth_k,
                                       call.margin)
    /\ UNCHANGED <<prog, extVars, writerVars, cwVars, call>>

\* Every search window with bounds from one below 0 to one above the longest
\* trace.
WindowBounds == (0 - 1)..(MaxCells + 1)

CallFind ==
    \E traces \in TraceArrays(FiniteSamples \cup {NaN}), s \in WindowBounds, e \in WindowBounds :
        call = [fn |-> "find_alignment_indices", traces |-> traces, s |-> s, e |-> e]

ReturnFind ==
    /\ prog = "pre" /\ call.fn = "find_alignment_indices" /\ ~ret.done
    /\ ret' = [done |-> TRUE, inds |-> find_alignment_indices(call.traces, call.s, call.e)]
    /\ UNCHANGED <<prog, extVars, writerVars, cwVars, call>>

\* ------------------------------------------------- capture.py: __main__

NoDutIO == [data |-> 0, computed_data |-> NoCapture]

NoTrace == TraceExt(Waveform(<<NaNVector>>), 0, NoCapture)

CwCommon ==
    /\ cw_exc = "none"
    /\ scope = "None" /\ target = "None"
    /\ scopeConn = [opened |-> FALSE, closed |-> FALSE]
    /\ targetConn = [opened |-> FALSE, closed |-> FALSE]
    /\ lock_i = 0 /\ i_capture = 0 /\ i_rep = 0 /\ i_retry = 0
    /\ dut_io = NoDutIO
    /\ waves = <<>>
    /\ trace = NoTrace
    /\ arms = 0
    /\ armFailed = FALSE
    /\ cw_computations = <<>>

\* ktp = DutIOTestPattern(N_traces, average_over, key); capture_trace asserts
\* average_over >= 1.
CwStart ==
    /\ cw_N \in 0..MaxTraces
    /\ cw_avg \in 1..MaxAvg
    /\ cw_pc = "setup"
    /\ CwCommon

CwIdle ==
    /\ cw_N = 0 /\ cw_avg = 1
    /\ cw_pc = "off"
    /\ CwCommon

CwRaise(kind) ==
    /\ cw_exc' = kind
    /\ cw_pc' = "finally"

\* An entry of capture_trace that keeps the waveforms of the trace before.
EnterCaptureKeepingWaves(i) ==
    /\ i_capture' = i
    /\ waves' = waves
    /\ dut_io' = [data |-> i + 1, computed_data |-> NoCapture]
    /\ i_rep' = 0
    /\ cw_pc' = "trigger"

\* The entry of capture_trace for the next logical trace: waves = [],
\* dut_io = ktp.next() (a fresh random input, named by the trace's number), and
\* the first repetition.
EnterCapture(i) ==
    /\ i_capture' = i
    /\ waves' = <<>>
    /\ dut_io' = [data |-> i + 1, computed_data |-> NoCapture]
    /\ i_rep' = 0
    /\ cw_pc' = "trigger"

\* scope, target = _setup_cwlite_cw305_100t(): the two names are bound only
\* when the call returns.
CwSetup ==
    /\ prog = "cw" /\ cw_pc = "setup"
    /\ \E outcome \in {"ok", "scope_con_fails", "scope_config_fails", "target_config_fails"} :
        CASE outcome = "ok" ->
               /\ scopeConn' = [scopeConn EXCEPT !.opened = TRUE]
               /\ targetConn' = [targetConn EXCEPT !.opened = TRUE]
               /\ scope' = "obj" /\ target' = "obj"
               /\ cw_pc' = "lock_adc"
               /\ UNCHANGED cw_exc
          [] outcome = "scope_con_fails" ->
               /\ CwRaise("setup")
               /\ UNCHANGED <<scopeConn, targetConn, scope, target>>
          [] outcome = "scope_config_fails" ->
               /\ scopeConn' = [scopeConn EXCEPT !.opened = TRUE]
               /\ CwRaise("setup")
               /\ UNCHANGED <<targetConn, scope, target>>
          [] outcome = "target_config_fails" ->
               /\ scopeConn' = [scopeConn EXCEPT !.opened = TRUE]
               /\ targetConn' = [targetConn EXCEPT !.opened = TRUE]
               /\ CwRaise("setup")
               /\ UNCHANGED <<scope, target>>
    /\ UNCHANGED <<prog, extVars, writerVars, cw_N, cw_avg, lock_i, i_capture, i_rep,
                   i_retry, dut_io, waves, trace, arms, armFailed, cw_computations>>

\* One iteration of _lock_adc: reset_adc(), sleep, `if scope.clock.adc_locked:
\* return`; after LOCK_ADC_TRIES iterations raise Exception("ADC failed to
\* lock.").  On return the capture loop is entered.
CwLockAdc ==
    /\ prog = "cw" /\ cw_pc = "lock_adc"
    /\ lock_i' = lock_i + 1
    /\ \E locked \in BOOLEAN :
        IF locked
        THEN /\ IF cw_N >= 1
                THEN EnterCapture(0)
                ELSE cw_pc' = "finally" /\ UNCHANGED <<i_capture, waves, dut_io, i_rep>>
             /\ UNCHANGED cw_exc
        ELSE /\ IF lock_i + 1 >= LOCK_ADC_TRIES
                THEN CwRaise("ADC failed to lock.")
                ELSE UNCHANGED <<cw_pc, cw_exc>>
             /\ UNCHANGED <<i_capture, waves, dut_io, i_rep>>
    /\ UNCHANGED <<prog, extVars, writerVars, cw_N, cw_avg, scope, target, scopeConn,
                   targetConn, i_retry, trace, arms, armFailed, cw_computations>>

\* A capture timeout that moves on to the next repetition instead of raising.
OnScopeTimeoutSkip == [pc |-> "trigger", exc |-> "none"]

\* What capture_trace does when scope.capture() reports a timeout:
\* raise Exception("Scope timed out.").
OnScopeTimeout == [pc |-> "finally", exc |-> "Scope timed out."]

\* Number of scope.arm() calls trigger_target makes.
ArmCalls == 1

\* target.fpga_write(DutIO.REG_DUT_DATAIN, ...); target.fpga_write(
\* DutIO.REG_DUT_KEYIN, ...); trigger_target(), whose usb_trigger_toggle()
\* starts the computation.
CwStartOps(data, key) ==
    << RegWrite("REG_DUT_DATAIN", data),
       RegWrite("REG_DUT_KEYIN", key),
       TriggerToggle >>

\* One repetition of capture_trace up to scope.capture(): the two register
\* writes, trigger_target() (scope.arm(), usb_trigger_toggle()) and
\* scope.capture().  The recorder may fail to arm: scope.arm() raises, or it
\* returns with the scope unarmed and scope.capture() then times out.
CwTrigger ==
    /\ prog = "cw" /\ cw_pc = "trigger"
    /\ \E outcome \in {"write_raises", "arm_raises", "not_armed", "capture_timeout", "captured"} :
        CASE outcome = "write_raises" ->
               /\ CwRaise("io")
               /\ arms' = 0
               /\ \E done \in 0..1 : bus' = Prefix(CwStartOps(dut_io.data, FIXED_KEY), done)
               /\ UNCHANGED <<armFailed, cw_computations, i_retry, dutWrites>>
          [] outcome = "arm_raises" ->
               /\ CwRaise("io")
               /\ arms' = ArmCalls
               /\ armFailed' = TRUE
               /\ bus' = Prefix(CwStartOps(dut_io.data, FIXED_KEY), 2)
               /\ UNCHANGED <<cw_computations, i_retry, dutWrites>>
          [] outcome \in {"not_armed", "capture_timeout"} ->
               /\ cw_pc' = OnScopeTimeout.pc
               /\ cw_exc' = OnScopeTimeout.exc
               /\ arms' = ArmCalls
               /\ armFailed' = (armFailed \/ outcome = "not_armed")
               /\ cw_computations' = Append(cw_computations, Capture(i_capture + 1, i_rep + 1))
               /\ bus' = CwStartOps(dut_io.data, FIXED_KEY)
               /\ dutWrites' = Append(dutWrites, DutWrite(Capture(i_capture + 1, i_rep + 1),
                                                          dut_io.data, FIXED_KEY))
               /\ UNCHANGED i_retry
          [] outcome = "captured" ->
               /\ cw_pc' = "verify"
               /\ arms' = ArmCalls
               /\ cw_computations' = Append(cw_computations, Capture(i_capture + 1, i_rep + 1))
               /\ bus' = CwStartOps(dut_io.data, FIXED_KEY)
               /\ dutWrites' = Append(dutWrites, DutWrite(Capture(i_capture + 1, i_rep + 1),
                                                          dut_io.data, FIXED_KEY))
               /\ i_retry' = 0
               /\ UNCHANGED <<cw_exc, armFailed>>
    /\ UNCHANGED <<prog, extVars, writerVars, cw_N, cw_avg, scope, target, scopeConn,
                   targetConn, lock_i, i_capture, i_rep, dut_io, waves, trace>>

\* One iteration of verify_target_done: `while fpga_read(REG_DUT_GO) == 0x01:
\* i_retry += 1; sleep; if i_retry > cap: return False`, and the caller's
\* raise Exception("Target did not report done in time.").
VerifyStep(busy) ==
    IF busy
    THEN /\ i_retry' = i_retry + 1
         /\ IF i_retry + 1 > CW_POLL_CAP
            THEN CwRaise("timeout")
            ELSE UNCHANGED <<cw_pc, cw_exc>>
    ELSE /\ cw_pc' = "retrieve"
         /\ UNCHANGED <<i_retry, cw_exc>>

CwVerify ==
    /\ prog = "cw" /\ cw_pc = "verify"
    /\ \E busy \in BOOLEAN :
          /\ VerifyStep(busy)
          /\ bus' = Logged(bus, RegRead("REG_DUT_GO", IF busy THEN 1 ELSE 0))
    /\ UNCHANGED dutWrites
    /\ UNCHANGED <<prog, extVars, writerVars, cw_N, cw_avg, scope, target, scopeConn,
                   targetConn, lock_i, i_capture, i_rep, dut_io, waves, trace, arms,
                   armFailed, cw_computations>>

\* A register read of the poll or of the result raises.
CwIoError ==
    /\ prog = "cw" /\ cw_pc \in {"verify", "retrieve"}
    /\ CwRaise("io")
    /\ UNCHANGED regVars
    /\ UNCHANGED <<prog, extVars, writerVars, cw_N, cw_avg, scope, target, scopeConn,
                   targetConn, lock_i, i_capture, i_rep, i_retry, dut_io, waves, trace,
                   arms, armFailed, cw_computations>>

\* The lengths scope.get_last_trace() may return: nothing, or the configured
\* scope.adc.samples.
WaveLengths == {0, ADC_SAMPLES}

\* An empty-trace check that lets every waveform pass.
EmptyTraceIgnored(wave) == FALSE

\* `if len(wave) == 0`.
EmptyTrace(wave) == wave.n = 0

\* The rest of the repetition: dut_io.computed_data, wave =
\* scope.get_last_trace(), the empty-trace check, waves.append(wave); after the
\* last repetition the mean and `return TraceExt(mean_wave, dut_io, ...)`.
CwRetrieve ==
    /\ prog = "cw" /\ cw_pc = "retrieve"
    /\ \E len \in WaveLengths :
        LET read == RegRead("REG_DUT_DATAOUT", DutResult(cw_computations))
            io == [dut_io EXCEPT !.computed_data = read.val]
            wave == Volts(len, Capture(i_capture + 1, i_rep + 1))
            ws == Append(waves, wave)
        IN
        /\ bus' = Append(bus, read)
        /\ UNCHANGED dutWrites
        /\ dut_io' = io
        /\ IF EmptyTrace(wave)
           THEN /\ CwRaise("Scope returned empty trace.")
                /\ UNCHANGED <<waves, i_rep, trace>>
           ELSE /\ waves' = ws
                /\ i_rep' = i_rep + 1
                /\ UNCHANGED cw_exc
                /\ IF i_rep + 1 < cw_avg
                   THEN cw_pc' = "trigger" /\ UNCHANGED trace
                   ELSE /\ cw_pc' = "write"
                        /\ trace' = TraceExt(Waveform(ws), io.data, io.computed_data)
    /\ UNCHANGED <<prog, extVars, writerVars, cw_N, cw_avg, scope, target, scopeConn,
                   targetConn, lock_i, i_capture, i_retry, arms, armFailed,
                   cw_computations>>

\* trace_writer(trace, i_capture==ktp.N_traces-1), trigger_counts.add(...) and
\* the next iteration of the capture loop.
CwWrite ==
    /\ prog = "cw" /\ cw_pc = "write"
    /\ \E outcome \in SaveOutcomes :
        LET flush == (i_capture = cw_N - 1) IN
        /\ write_traces_to_disk(trace, flush, outcome)
        /\ IF WriterRaises(trace, flush, outcome)
           THEN /\ CwRaise("save")
                /\ UNCHANGED <<i_capture, waves, dut_io, i_rep>>
           ELSE /\ IF i_capture + 1 < cw_N
                   THEN EnterCapture(i_capture + 1)
                   ELSE cw_pc' = "finally" /\ UNCHANGED <<i_capture, waves, dut_io, i_rep>>
                /\ UNCHANGED cw_exc
    /\ UNCHANGED <<prog, extVars, cw_N, cw_avg, scope, target, scopeConn, targetConn,
                   lock_i, i_retry, trace, arms, armFailed, cw_computations>>

\* The finally block: `if 'scope' in locals(): scope.dis()` and then
\* `if 'target' in locals(): target.dis()`, neither inside a try: when
\* scope.dis() raises, target.dis() is not reached.  cw_exc keeps the first
\* exception of the run (a later one is raised with it as its context).
CwFinally ==
    /\ prog = "cw" /\ cw_pc = "finally"
    /\ \E scopeDis \in {"ok", "raise"}, targetDis \in {"ok", "raise"} :
        LET scopeRaises == scope = "obj" /\ scopeDis = "raise"
            targetRaises == target = "obj" /\ targetDis = "raise"
        IN
        /\ scopeConn' = Released(scopeConn, scope)
        /\ targetConn' = IF scopeRaises THEN targetConn ELSE Released(targetConn, target)
        /\ cw_exc' = IF cw_exc = "none" /\ (scopeRaises \/ targetRaises)
                      THEN "dis"
                      ELSE cw_exc
        /\ cw_pc' = IF cw_exc' = "none" THEN "returned" ELSE "raised"
    /\ UNCHANGED <<prog, extVars, writerVars, cw_N, cw_avg, scope, target, lock_i,
                   i_capture, i_rep, i_retry, dut_io, waves, trace, arms, armFailed,
                   cw_computations>>

CwNext ==
    \/ CwSetup /\ UNCHANGED regVars
    \/ CwLockAdc /\ UNCHANGED regVars
    \/ CwTrigger
    \/ CwVerify
    \/ CwIoError
    \/ CwRetrieve
    \/ CwWrite /\ UNCHANGED regVars
    \/ CwFinally /\ UNCHANGED regVars

\* ------------------------------------------------------------------ util.py

\* Arguments of hw_slow and hw run from -MaxInput to MaxInput.
MaxInput == 300

\* The loop's cnt is followed up to HwCap, which no count of a terminating
\* call on these arguments reaches; a loop that goes on counts no further.
HwCap == 12

\* `a % 256`, `a >> 8`, `range(256)`
BYTE == 256

Counted(c) == IF c < HwCap THEN c ELSE HwCap

\* One iteration of hw_slow: cnt += a % 2; a = a >> 1.  Python's % with a
\* positive modulus is never negative and >> rounds towards minus infinity.
HwSlowBody(a, cnt) == [a |-> a \div 2, cnt |-> Counted(cnt + (a % 2))]

\* hw_slow(a) on an argument it returns for.
RECURSIVE HwSlowRun(_, _)
HwSlowRun(a, cnt) ==
    IF a = 0 THEN cnt ELSE HwSlowRun(HwSlowBody(a, cnt).a, HwSlowBody(a, cnt).cnt)

\* hamming_dict = {i: hw_slow(i) for i in range(256)}
hamming_dict == [i \in 0..(BYTE - 1) |-> HwSlowRun(i, 0)]

\* An iteration of hw that moves on by four bits.
HwBodyShiftNibble(a, cnt) ==
    [a |-> a \div 16, cnt |-> Counted(cnt + hamming_dict[a % BYTE])]

\* One iteration of hw: cnt += hamming_dict[a % 256]; a = a >> 8.
HwBody(a, cnt) == [a |-> a \div BYTE, cnt |-> Counted(cnt + hamming_dict[a % BYTE])]

\* a ^ b on Python's integers, which are two's complement numbers of
\* unbounded width: -1 is all ones, and -1 ^ b = ~b = -1 - b.
RECURSIVE Xor(_, _)
Xor(a, b) ==
    IF a = 0 THEN b
    ELSE IF b = 0 THEN a
    ELSE IF a = 0 - 1 THEN (0 - 1) - b
    ELSE IF b = 0 - 1 THEN (0 - 1) - a
    ELSE 2 * Xor(a \div 2, b \div 2) + (((a % 2) + (b % 2)) % 2)

NoHwCall == [fn |-> "none", a0 |-> 0, b0 |-> 0, a |-> 0, cnt |-> 0, pc |-> "off", ret |-> 0]

UtilIdle == hwCall = NoHwCall

\* The arguments hd is called with.
HdInputs == ((0 - 3)..3) \cup {BYTE - 1, BYTE, BYTE + 1}

\* ------------------------------------------------------------ lock_fpga.py

\* Calls of lock_fpga each user makes.
MaxLockCalls == 2

\* getpass.getuser() of the two users.
Users == {"alice", "bob"}

NoFile == [exists |-> FALSE, owner |-> "none", mode |-> "none", content |-> "none"]

\* The mode open(LOCK_FILE, 'w') creates the file with, by the user's umask:
\* writable by its owner only, or by everyone.
CreationModes == {"0644", "0666"}

NoLockFrame == [pc |-> "idle", lock_data |-> "None", calls |-> 0]

LockStart ==
    /\ lockFile = NoFile
    /\ lk = [u \in Users |-> NoLockFrame]
    /\ overwrites = <<>>
    /\ told = <<>>

LockIdle == LockStart

LockFrame == UNCHANGED <<prog, extVars, writerVars, cwVars, preVars, regVars, utilVars>>

\* lock_fpga(hours) is called.
LockCall(u) ==
    /\ prog = "lock" /\ lk[u].pc = "idle" /\ lk[u].calls < MaxLockCalls
    /\ lk' = [lk EXCEPT ![u] = [pc |-> "exists", lock_data |-> "None", calls |-> @.calls + 1]]
    /\ UNCHANGED <<lockFile, overwrites, told>>
    /\ LockFrame

\* read_lock_file: `if os.path.exists(LOCK_FILE)`, else `return None`.
LockExists(u) ==
    /\ prog = "lock" /\ lk[u].pc = "exists"
    /\ lk' = [lk EXCEPT ![u].pc = IF lockFile.exists THEN "load" ELSE "decide"]
    /\ UNCHANGED <<lockFile, overwrites, told>>
    /\ LockFrame

\* read_lock_file: `with open(LOCK_FILE, 'r') as lock: return json.load(lock)`.
\* A file another call has opened for writing and not written yet is empty,
\* and json.load raises on it.
LockLoad(u) ==
    /\ prog = "lock" /\ lk[u].pc = "load"
    /\ lk' = IF lockFile.content = "empty"
             THEN [lk EXCEPT ![u].pc = "raised"]
             ELSE [lk EXCEPT ![u].pc = "decide", ![u].lock_data = lockFile.content]
    /\ UNCHANGED <<lockFile, overwrites, told>>
    /\ LockFrame

\* Lines 31-45: with no lock the call goes on; with a lock of the current user
\* it goes on when the user confirms; with a lock of another user it returns.
MayWrite(lock_data, current_user, confirm) ==
    \/ lock_data = "None"
    \/ lock_data = current_user /\ confirm = "y"

LockDecide(u) ==
    /\ prog = "lock" /\ lk[u].pc = "decide"
    /\ \E confirm \in {"y", "n"} :
        lk' = [lk EXCEPT ![u].pc = IF MayWrite(lk[u].lock_data, u, confirm)
                                   THEN "open" ELSE "idle"]
    /\ UNCHANGED <<lockFile, overwrites, told>>
    /\ LockFrame

\* Whether the system lets user u open the file for writing: its owner always;
\* another user only a file writable by everyone, and not on every system.
OpenOutcomes(u) ==
    IF ~lockFile.exists \/ lockFile.owner = u THEN {"ok"}
    ELSE IF lockFile.mode = "0666" THEN {"ok", "denied"}
    ELSE {"denied"}

\* open(LOCK_FILE, 'w'): creates the file, or truncates the one there.
LockOpen(u) ==
    /\ prog = "lock" /\ lk[u].pc = "open"
    /\ \E outcome \in OpenOutcomes(u), mode \in CreationModes :
        IF outcome = "ok"
        THEN /\ lockFile' = IF lockFile.exists
                            THEN [lockFile EXCEPT !.content = "empty"]
                            ELSE [exists |-> TRUE, owner |-> u, mode |-> mode,
                                  content |-> "empty"]
             /\ overwrites' = IF lockFile.exists /\ lockFile.content \in Users
                              THEN Append(overwrites, [by |-> u, of |-> lockFile.content])
                              ELSE overwrites
             /\ lk' = [lk EXCEPT ![u].pc = "dump"]
        ELSE /\ lk' = [lk EXCEPT ![u].pc = "raised"]
             /\ UNCHANGED <<lockFile, overwrites>>
    /\ UNCHANGED told
    /\ LockFrame

\* json.dump(lock_data, lock, indent=4) and the end of the with block.
LockDump(u) ==
    /\ prog = "lock" /\ lk[u].pc = "dump"
    /\ lockFile' = [lockFile EXCEPT !.content = u]
    /\ lk' = [lk EXCEPT ![u].pc = "chmod"]
    /\ UNCHANGED <<overwrites, told>>
    /\ LockFrame

\* os.chmod(LOCK_FILE, 0o666): only the owner of a file may change its mode.
LockChmod(u) ==
    /\ prog = "lock" /\ lk[u].pc = "chmod"
    /\ IF lockFile.owner = u
       THEN /\ lockFile' = [lockFile EXCEPT !.mode = "0666"]
            /\ lk' = [lk EXCEPT ![u].pc = "print"]
       ELSE /\ lk' = [lk EXCEPT ![u].pc = "raised"]
            /\ UNCHANGED lockFile
    /\ UNCHANGED <<overwrites, told>>
    /\ LockFrame

\* print(f"FPGA locked by {current_user}.") and the return.
LockPrint(u) ==
    /\ prog = "lock" /\ lk[u].pc = "print"
    /\ told' = Append(told, [user |-> u, holder |-> lockFile.content])
    /\ lk' = [lk EXCEPT ![u].pc = "idle"]
    /\ UNCHANGED <<lockFile, overwrites>>
    /\ LockFrame

\* The exception ends the call.
LockRaised(u) ==
    /\ prog = "lock" /\ lk[u].pc = "raised"
    /\ lk' = [lk EXCEPT ![u].pc = "idle"]
    /\ UNCHANGED <<lockFile, overwrites, told>>
    /\ LockFrame

\* Two users call lock_fpga, their steps interleaved in every way.
LockInit ==
    /\ prog = "lock"
    /\ ExtIdle
    /\ CwIdle
    /\ PreIdle
    /\ RegStart
    /\ WriterStart
    /\ LockStart
    /\ UtilIdle

LockNext ==
    \E u \in Users :
        \/ LockCall(u)
        \/ LockExists(u)
        \/ LockLoad(u)
        \/ LockDecide(u)
        \/ LockOpen(u)
        \/ LockDump(u)
        \/ LockChmod(u)
        \/ LockPrint(u)
        \/ LockRaised(u)

SpecLock == LockInit /\ [][LockNext]_vars

\* ------------------------------------------------- util.py: the calls

\* One call: hw_slow(a) or hw(a), at `cnt = 0`, or hd(a, b), before a ^ b.
UtilInit ==
    /\ prog = "util"
    /\ \/ \E fn \in {"hw_slow", "hw"}, a \in (0 - MaxInput)..MaxInput :
             hwCall = [fn |-> fn, a0 |-> a, b0 |-> 0, a |-> a, cnt |-> 0,
                       pc |-> "loop", ret |-> 0]
       \/ \E a \in HdInputs, b \in HdInputs :
             hwCall = [fn |-> "hd", a0 |-> a, b0 |-> b, a |-> 0, cnt |-> 0,
                       pc |-> "xor", ret |-> 0]
    /\ ExtIdle
    /\ CwIdle
    /\ PreIdle
    /\ RegStart
    /\ WriterStart
    /\ LockStart

UtilFrame == UNCHANGED <<prog, extVars, writerVars, cwVars, preVars, regVars, lockVars>>

\* hw_slow: `while a:` with a not 0.
HwSlowIter ==
    /\ prog = "util" /\ hwCall.fn = "hw_slow" /\ hwCall.pc = "loop" /\ hwCall.a # 0
    /\ hwCall' = [hwCall EXCEPT !.a = HwSlowBody(hwCall.a, hwCall.cnt).a,
                                !.cnt = HwSlowBody(hwCall.a, hwCall.cnt).cnt]
    /\ UtilFrame

\* hw_slow: a is 0, `return cnt`.
HwSlowReturn ==
    /\ prog = "util" /\ hwCall.fn = "hw_slow" /\ hwCall.pc = "loop" /\ hwCall.a = 0
    /\ hwCall' = [hwCall EXCEPT !.pc = "returned", !.ret = hwCall.cnt]
    /\ UtilFrame

\* hd(a, b): `return hw(a ^ b)`, the call of hw.
HdCall ==
    /\ prog = "util" /\ hwCall.fn = "hd" /\ hwCall.pc = "xor"
    /\ hwCall' = [hwCall EXCEPT !.a = Xor(hwCall.a0, hwCall.b0), !.pc = "loop"]
    /\ UtilFrame

\* hw: `while a:` with a not 0.
HwIter ==
    /\ prog = "util" /\ hwCall.fn \in {"hw", "hd"} /\ hwCall.pc = "loop" /\ hwCall.a # 0
    /\ hwCall' = [hwCall EXCEPT !.a = HwBody(hwCall.a, hwCall.cnt).a,
                                !.cnt = HwBody(hwCall.a, hwCall.cnt).cnt]
    /\ UtilFrame

\* hw: a is 0, `return cnt`; hd returns what hw returns.
HwReturn ==
    /\ prog = "util" /\ hwCall.fn \in {"hw", "hd"} /\ hwCall.pc = "loop" /\ hwCall.a = 0
    /\ hwCall' = [hwCall EXCEPT !.pc = "returned", !.ret = hwCall.cnt]
    /\ UtilFrame

UtilNext ==
    \/ HwSlowIter
    \/ HwSlowReturn
    \/ HdCall
    \/ HwIter
    \/ HwReturn

SpecUtil == UtilInit /\ [][UtilNext]_vars

\* A call that can take a step takes it.
SpecUtilFair == SpecUtil /\ WF_vars(UtilNext)

Init ==
    /\ WriterStart
    /\ PreIdle
    /\ RegStart
    /\ LockIdle
    /\ UtilIdle
    /\ \/ prog = "ext" /\ ExtStart /\ CwIdle
       \/ prog = "cw" /\ CwStart /\ ExtIdle

Next ==
    \/ ExtNext /\ UNCHANGED <<preVars, lockVars, utilVars>>
    \/ CwNext /\ UNCHANGED <<preVars, lockVars, utilVars>>

Spec == Init /\ [][Next]_vars

\* Every instrument call returns or raises, so a run that can take a step
\* eventually takes one.
SpecFair == Spec /\ WF_vars(Next)

\* One event index per trace and a reference index, each a sample index of the
\* trace.
CallAlign ==
    \E traces \in TraceArrays(FiniteSamples \cup {NaN}) :
        \E event_indices \in [1..NRows(traces) -> 0..(NPoints(traces) - 1)],
           ref_index \in 0..(NPoints(traces) - 1) :
            call = [fn |-> "align_traces_roll", traces |-> traces,
                    event_indices |-> event_indices, ref_index |-> ref_index]

ReturnAlign ==
    /\ prog = "pre" /\ call.fn = "align_traces_roll" /\ ~ret.done
    /\ ret' = [done |-> TRUE,
               aligned |-> align_traces_roll(call.traces, call.event_indices, call.ref_index)]
    /\ UNCHANGED <<prog, extVars, writerVars, cwVars, call>>

\* A detected window 0 <= start < end <= T of a trace of T samples, and a
\* reference index from one below the trace to one above it (REF_ALIGNMENT may
\* be any integer).
CallCropWindow ==
    \E n_points \in 1..MaxCells :
        \E start \in 0..(n_points - 1), end \in 1..n_points, ref_idx \in WindowBounds :
            /\ start < end
            /\ call = [fn |-> "crop_window", n_points |-> n_points, start |-> start,
                       end |-> end, ref_idx |-> ref_idx]

ReturnCropWindow ==
    /\ prog = "pre" /\ call.fn = "crop_window" /\ ~ret.done
    /\ ret' = [done |-> TRUE,
               window |-> CropWindow(call.start, call.end, call.n_points, call.ref_idx)]
    /\ UNCHANGED <<prog, extVars, writerVars, cwVars, call>>

\* Finite traces, cropped from their first or their second sample to their
\* end, a baseline window, and every combination of the options.
BaselineWindows == {<<0, 1>>, <<0, 2>>, <<1, 3>>, <<0, 20>>}

CallCrop ==
    \E traces \in TraceArrays(FiniteSamples), start \in 0..1, bw \in BaselineWindows,
       detrend \in BOOLEAN, normalize \in BOOLEAN, smooth_k \in SmoothKValues :
        /\ start < NPoints(traces)
        /\ call = [fn |-> "crop_baseline_normalize", traces |-> traces, start |-> start,
                   end |-> NPoints(traces), baseline_window |-> bw, detrend |-> detrend,
                   normalize |-> normalize, smooth_k |-> smooth_k]

ReturnCrop ==
    /\ prog = "pre" /\ call.fn = "crop_baseline_normalize" /\ ~ret.done
    /\ ret' = crop_baseline_normalize(call.traces, call.start, call.end,
                                      call.baseline_window, call.detrend, call.normalize,
                                      call.smooth_k)
    /\ UNCHANGED <<prog, extVars, writerVars, cwVars, call>>

\* The arrays the filter is reached with: traces of the shortest length the
\* detrending accepts, with finite, NaN and infinite samples, and metadata
\* arrays that are absent, of the length of the array, or longer.
FilterSamples == {Fin(0), Fin(1), NaN, PInf}

FilterArrays == UNION {[1..n -> [1..MinSlowK -> FilterSamples]] : n \in 1..MaxRows}

MetaChoices(n) == {None, MetaArray(n), MetaArray(n + 1)}

CallFilter ==
    \E loaded \in FilterArrays :
        \E plaintexts \in MetaChoices(NRows(loaded)),
           ciphertexts \in {None, MetaArray(NRows(loaded))},
           keys \in {None, MetaArray(NRows(loaded))} :
            call = [fn |-> "filter_and_save", waves |-> loaded, start |-> 0,
                    end |-> NPoints(loaded), plaintexts |-> plaintexts,
                    ciphertexts |-> ciphertexts, keys |-> keys]

ReturnFilter ==
    /\ prog = "pre" /\ call.fn = "filter_and_save" /\ ~ret.done
    /\ ret' = FilterAndSave(call.waves, call.start, call.end, call.plaintexts,
                            call.ciphertexts, call.keys)
    /\ UNCHANGED <<prog, extVars, writerVars, cwVars, call>>

\* One call of one function of preprocess.py, on arguments drawn from the
\* bounded sets.
PreInit ==
    /\ prog = "pre"
    /\ ExtIdle
    /\ CwIdle
    /\ WriterStart
    /\ RegStart
    /\ LockIdle
    /\ UtilIdle
    /\ ret = [done |-> FALSE]
    /\ \/ CallDetect
       \/ CallFind
       \/ CallAlign
       \/ CallCropWindow
       \/ CallCrop
       \/ CallFilter

PreNext ==
    \/ ReturnDetect /\ UNCHANGED <<regVars, lockVars, utilVars>>
    \/ ReturnFind /\ UNCHANGED <<regVars, lockVars, utilVars>>
    \/ ReturnAlign /\ UNCHANGED <<regVars, lockVars, utilVars>>
    \/ ReturnCropWindow /\ UNCHANGED <<regVars, lockVars, utilVars>>
    \/ ReturnCrop /\ UNCHANGED <<regVars, lockVars, utilVars>>
    \/ ReturnFilter /\ UNCHANGED <<regVars, lockVars, utilVars>>

SpecPre == PreInit /\ [][PreNext]_vars

\* The trace writer alone.
WriterInit ==
    /\ prog = "writer"
    /\ ExtIdle
    /\ CwIdle
    /\ PreIdle
    /\ RegStart
    /\ LockIdle
    /\ UtilIdle
    /\ WriterStart

WriterNext == WriterCall /\ UNCHANGED <<preVars, regVars, lockVars, utilVars>>

SpecWriter == WriterInit /\ [][WriterNext]_vars

\* Timeouts an instrument may have when rigol_read_segment is called:
\* the one the setup leaves, the long read timeout, and a longer one.
EntryTimeouts ==
    {SETUP_TIMEOUT_MS, RIGOL_READ_TIMEOUT_MS, RIGOL_READ_TIMEOUT_MS + SETUP_TIMEOUT_MS}

\* One call rigol_read_segment(inst, seg_index) on an open instrument, the
\* recorder holding one capture: segment 1 has data, segment 2 has none.
SegmentInit ==
    /\ prog = "segment"
    /\ N_TRACES = 0 /\ AVERAGE_OVER = 0
    /\ pc = "off"
    /\ exc = "none"
    /\ rm = "None" /\ rigol = "None" /\ cw305 = "None"
    /\ \E t \in EntryTimeouts : inst = [opened |-> TRUE, closed |-> FALSE, timeout |-> t]
    /\ rmgr = [opened |-> TRUE, closed |-> FALSE]
    /\ dev = [opened |-> FALSE, closed |-> FALSE]
    /\ i_pt = 0 /\ rep = 0 /\ seg_count = 0 /\ tries = 0
    /\ last_ct = NoCapture
    /\ metas = <<>>
    /\ recSegs = <<Capture(1, 1)>>
    /\ computations = <<Capture(1, 1)>>
    /\ idx = 0
    /\ segs = <<>>
    /\ main_prev_timeout = 0
    /\ artifact = NoArtifact
    /\ \E seg_index \in 1..2 : rs = [RsIdle EXCEPT !.pc = "select", !.seg = seg_index]
    /\ CwIdle
    /\ PreIdle
    /\ RegStart
    /\ LockIdle
    /\ UtilIdle
    /\ WriterStart

SegmentNext ==
    \/ RsSelect /\ UNCHANGED <<preVars, regVars, lockVars, utilVars>>
    \/ RsPoints /\ UNCHANGED <<preVars, regVars, lockVars, utilVars>>
    \/ RsCalib /\ UNCHANGED <<preVars, regVars, lockVars, utilVars>>
    \/ RsAttempt /\ UNCHANGED <<preVars, regVars, lockVars, utilVars>>
    \/ RsAttemptData /\ UNCHANGED <<preVars, regVars, lockVars, utilVars>>

SpecSegment == SegmentInit /\ [][SegmentNext]_vars

\* ------------------------------------------------------------------ claims

ExtEnded == prog = "ext" /\ pc \in {"returned", "raised"}

CwEnded == prog = "cw" /\ cw_pc \in {"returned", "raised"}

RsEnded == prog = "ext" /\ rs.pc \in {"returned", "raised"}

\* C1: when every one of the MAX_SEGMENT_READ_ATTEMPTS data-read attempts of
\* rigol_read_segment has failed, the call returns the NaN vector of
\* POINTS_PER_SEGMENT samples and raises nothing.
C1_ExhaustedReadReturnsNaN ==
    (RsEnded /\ rs.failed = MAX_SEGMENT_READ_ATTEMPTS)
        => /\ rs.pc = "returned"
           /\ rs.result.nan
           /\ rs.result.n = POINTS_PER_SEGMENT

\* The same with the timeout restored by the last attempt's finally clause:
\* then the NaN vector is returned.
C1_HoldsWhenRestoreSucceeds ==
    (prog = "ext" /\ rs.pc = "returned" /\ rs.failed = MAX_SEGMENT_READ_ATTEMPTS)
        => /\ rs.result.nan
           /\ rs.result.n = POINTS_PER_SEGMENT

\* C2: every vector rigol_read_segment returns has POINTS_PER_SEGMENT samples.
C2_ReturnedVectorHasFixedLength ==
    (prog = "ext" /\ rs.pc = "returned") => rs.result.n = POINTS_PER_SEGMENT

\* C3: when a capture run has returned or raised, every recorder connection
\* and every device connection that was opened has had its close/dis called.
C3_OpenedConnectionsReleased ==
    /\ ExtEnded => /\ inst.opened => inst.closed
                   /\ dev.opened => dev.closed
    /\ CwEnded => /\ scopeConn.opened => scopeConn.closed
                  /\ targetConn.opened => targetConn.closed

\* The artifacts a run of capture.py has written completely.
CompleteFiles == {k \in DOMAIN files : files[k].state = "complete"}

\* C4: in every artifact written completely, the number of waveforms equals
\* the length of every metadata array stored with it.
C4_ArtifactArraysParallel ==
    /\ (prog = "ext" /\ artifact.state = "complete") =>
          /\ Len(artifact.waves) = Len(artifact.plaintexts)
          /\ Len(artifact.waves) = Len(artifact.keys)
          /\ Len(artifact.waves) = Len(artifact.ciphertexts)
    /\ prog = "cw" =>
          \A k \in CompleteFiles :
              /\ Len(files[k].wave) = Len(files[k].dut_io_data)
              /\ Len(files[k].wave) = Len(files[k].dut_io_computed_data)

\* A run of external_capture.py with averaging and more than one logical trace
\* has saved its artifact, one waveform of it degraded to NaN.
C4_Witness ==
    /\ prog = "ext" /\ pc = "returned" /\ artifact.state = "complete"
    /\ AVERAGE_OVER > 1 /\ N_TRACES > 1
    /\ Len(artifact.waves) = N_TRACES
    /\ \E i \in 1..Len(artifact.waves) : artifact.waves[i].nan

\* Waveform w is the mean of the captures the recorder took during the
\* computations on input i, a NaN vector standing for a capture whose read
\* degraded.
MeanOfCapturesOf(w, i, reps) ==
    /\ Len(w.parts) = reps
    /\ \A j \in 1..Len(w.parts) : w.parts[j].nan \/ w.parts[j].cap.i = i
    /\ \A j, k \in 1..Len(w.parts) :
          (j # k /\ ~w.parts[j].nan /\ ~w.parts[k].nan) => w.parts[j].cap # w.parts[k].cap

\* C5: in the artifact of a completed run the i-th waveform is the mean of the
\* captures taken during the computations on the i-th input, and the i-th
\* metadata entries are that input and the output computed from it.
C5_WaveformMatchesInput ==
    /\ (prog = "ext" /\ artifact.state = "complete") =>
          \A i \in 1..Len(artifact.waves) :
              /\ MeanOfCapturesOf(artifact.waves[i], i, Reps)
              /\ i <= Len(artifact.plaintexts) /\ artifact.plaintexts[i] = i
              /\ i <= Len(artifact.ciphertexts) /\ artifact.ciphertexts[i] = Capture(i, Reps)
    /\ prog = "cw" =>
          \A k \in CompleteFiles : \A i \in 1..Len(files[k].wave) :
              /\ MeanOfCapturesOf(files[k].wave[i], files[k].dut_io_data[i], cw_avg)
              /\ files[k].dut_io_computed_data[i] = Capture(files[k].dut_io_data[i], cw_avg)

\* The same for capture.py alone, where a capture the scope misses ends the run.
C5_HoldsInCapturePy ==
    prog = "cw" =>
        \A k \in CompleteFiles : \A i \in 1..Len(files[k].wave) :
            /\ MeanOfCapturesOf(files[k].wave[i], files[k].dut_io_data[i], cw_avg)
            /\ files[k].dut_io_computed_data[i] = Capture(files[k].dut_io_data[i], cw_avg)

ExtTimedOut == prog = "ext" /\ tries > EXT_POLL_CAP

CwTimedOut == prog = "cw" /\ i_retry > CW_POLL_CAP

\* C6: a computation whose busy flag reads set on every poll is polled no more
\* than the cap allows and then fails with a timeout without a result; no
\* further computation is started, the run ends raising, and by then the
\* teardown of the recorder and of the device has been attempted.
C6_TimeoutAbortsAfterTeardown ==
    /\ prog = "ext" => tries <= EXT_POLL_CAP + 1
    /\ prog = "cw" => i_retry <= CW_POLL_CAP + 1
    /\ ExtTimedOut =>
          /\ exc = "timeout"
          /\ pc \in {"finally", "raised"}
          /\ last_ct # computations[Len(computations)]
          /\ pc = "raised" => inst.closed /\ dev.closed
    /\ CwTimedOut =>
          /\ cw_exc = "timeout"
          /\ cw_pc \in {"finally", "raised"}
          /\ dut_io.computed_data # cw_computations[Len(cw_computations)]
          /\ cw_pc = "raised" => scopeConn.closed /\ targetConn.closed

\* The same without the teardown of capture.py, and for external_capture.py
\* with it.
C6_HoldsButForCwTeardown ==
    /\ prog = "ext" => tries <= EXT_POLL_CAP + 1
    /\ prog = "cw" => i_retry <= CW_POLL_CAP + 1
    /\ ExtTimedOut =>
          /\ exc = "timeout"
          /\ pc \in {"finally", "raised"}
          /\ last_ct # computations[Len(computations)]
          /\ pc = "raised" => inst.closed /\ dev.closed
    /\ CwTimedOut =>
          /\ cw_exc = "timeout"
          /\ cw_pc \in {"finally", "raised"}
          /\ dut_io.computed_data # cw_computations[Len(cw_computations)]
          /\ cw_pc = "raised" => scopeConn.closed

\* Trace t is in an artifact that was written completely.
Persisted(t) ==
    \E k \in CompleteFiles : \E i \in 1..Len(files[k].wave) :
        /\ files[k].wave[i] = t.wave
        /\ files[k].dut_io_data[i] = t.dut_io.data
        /\ files[k].dut_io_computed_data[i] = t.dut_io.computed_data

\* The exceptions capture_trace raises.
CaptureFaults == {"io", "timeout", "Scope timed out.", "Scope returned empty trace."}

\* C8: when a run has aborted while capturing a trace, every trace captured
\* completely before it is in a persisted artifact.
C8_CapturedTracesPersisted ==
    /\ (prog = "cw" /\ cw_pc = "raised" /\ cw_exc \in CaptureFaults) =>
          \A k \in 1..Len(appended) : Persisted(appended[k])
    /\ (prog = "ext" /\ pc = "raised" /\ exc = "timeout" /\ Len(metas) >= 1) =>
          artifact.state = "complete"

\* C9: no partially written artifact is left at an artifact's final path.
C9_NoPartialArtifactLeft ==
    /\ artifact.state # "partial"
    /\ \A k \in DOMAIN files : files[k].state # "partial"

AllSavesOk == \A k \in 1..Len(flushLog) : flushLog[k].ok

ArtifactTraces(a) ==
    [k \in 1..Len(a.wave) |->
        TraceExt(a.wave[k], a.dut_io_data[k], a.dut_io_computed_data[k])]

\* The traces of artifacts 0 .. n-1, in artifact order.
RECURSIVE StoredTraces(_)
StoredTraces(n) ==
    IF n = 0 THEN <<>> ELSE StoredTraces(n - 1) \o ArtifactTraces(files[n - 1])

\* What the claim says the calls made so far do: a call with flush set, or one
\* that brings the batch to TRACES_PER_FILE traces, writes the batch; any other
\* call appends one trace.  The sizes of the artifacts written and of the batch
\* left, call by call.
RECURSIVE ExpectedSizes(_, _, _)
ExpectedSizes(k, pending, written) ==
    IF k > Len(callLog)
    THEN [written |-> written, pending |-> pending]
    ELSE IF callLog[k] \/ pending + 1 >= TRACES_PER_FILE
         THEN ExpectedSizes(k + 1, 0, Append(written, pending + 1))
         ELSE ExpectedSizes(k + 1, pending + 1, written)

RunEnded == ExtEnded \/ CwEnded

\* C11: every capture run ends, by returning or by raising, whatever the
\* recorder and the device answer, and no wait loop runs more often than its
\* cap: the busy-flag polls, the ADC-lock tries and the segment-read attempts.
C11_RunTerminatesWithinCaps ==
    /\ <>RunEnded
    /\ [](/\ tries <= EXT_POLL_CAP + 1
          /\ i_retry <= CW_POLL_CAP + 1
          /\ lock_i <= LOCK_ADC_TRIES
          /\ Len(rs.attempt_timeouts) <= MAX_SEGMENT_READ_ATTEMPTS
          /\ rs.failed <= MAX_SEGMENT_READ_ATTEMPTS)

\* The device stayed busy until the poll cap of external_capture.py and the
\* run ended with the timeout.
C11_Witness ==
    /\ ExtEnded /\ exc = "timeout"
    /\ tries = EXT_POLL_CAP + 1

\* ---- zero-length answers of the recorder

\* C12 as stated: a zero-length answer of the recorder aborts the run; the call
\* that received it hands no vector back to be accumulated.
C12_EmptyCaptureAborts ==
    /\ (prog = "cw" /\ cw_exc = "Scope returned empty trace.") =>
          cw_pc \in {"finally", "raised"}
    /\ (prog = "ext" /\ rs.empty > 0) => rs.pc # "returned"

\* C12 amended.  capture.py: a zero-length waveform is never accumulated, and
\* the run that met one raises with the waveform left out, the trace not
\* handed to the writer and no later computation started.
\* external_capture.py: a zero-length answer does not abort the run: a segment
\* of 0 points returns the NaN vector without a read, an empty block counts as
\* a failed attempt, the vector returned is never of zero length, and the run
\* goes on with the readback.
C12_EmptyCaptureHandling ==
    /\ \A k \in 1..Len(waves) : waves[k].n > 0
    /\ \A k \in 1..Len(appended) : \A j \in 1..Len(appended[k].wave.parts) :
          appended[k].wave.parts[j].n > 0
    /\ (prog = "cw" /\ cw_exc = "Scope returned empty trace.") =>
          /\ cw_pc \in {"finally", "raised"}
          /\ Len(waves) = i_rep
          /\ Len(appended) = i_capture
          /\ cw_computations # <<>>
          /\ cw_computations[Len(cw_computations)] = Capture(i_capture + 1, i_rep + 1)
    /\ (prog = "ext" /\ rs.empty > 0) =>
          /\ rs.empty <= rs.failed + (IF rs.n_points = 0 THEN 1 ELSE 0)
          /\ rs.n_points = 0 =>
                rs.pc = "returned" /\ rs.result = NaNVector /\ rs.attempt_timeouts = <<>>
          /\ rs.pc = "returned" => rs.result.n > 0
          /\ (rs.pc = "returned" /\ rs.failed = MAX_SEGMENT_READ_ATTEMPTS) =>
                rs.result = NaNVector
          /\ rs.pc # "raised" => pc = "readback" /\ exc = "none"

\* capture.py met an empty waveform on its second trace and raised.
C12_WitnessCw ==
    /\ CwEnded /\ cw_exc = "Scope returned empty trace."
    /\ i_capture = 1

\* external_capture.py read an empty block and the call returned all the same,
\* with data from the next attempt.
C12_Witness ==
    /\ prog = "ext" /\ rs.empty > 0 /\ rs.pc = "returned"
    /\ ~rs.result.nan

\* ---- preprocess.py

Returned(fn) == prog = "pre" /\ call.fn = fn /\ ret.done

\* C13: every event index find_alignment_indices returns lies in the search
\* window it was given, s <= i < e, also for an empty or one-sample window.
C13_EventIndexInWindow ==
    Returned("find_alignment_indices") =>
        \A i \in 1..Len(ret.inds) : call.s <= ret.inds[i] /\ ret.inds[i] < call.e

\* For a window that holds at least two samples of the trace the indices do
\* lie in it.
C13_HoldsForWindowsOfTwoSamples ==
    (/\ Returned("find_alignment_indices")
     /\ Min(NPoints(call.traces), call.e) > Max(0, call.s) + 1) =>
        \A i \in 1..Len(ret.inds) : call.s <= ret.inds[i] /\ ret.inds[i] < call.e

NoneExceeds(c) ==
    (~MovingAverageRaises(Activity(c.traces), c.smooth_k)) =>
        ActiveIdxs(MovingAverage(Activity(c.traces), c.smooth_k), c.pre_samples) = {}

\* C14: when no sample of the smoothed activity exceeds the threshold,
\* detect_encryption_window returns (0, T).
C14_NoExceedanceFullTrace ==
    (Returned("detect_encryption_window") /\ NoneExceeds(call)) =>
        /\ ~ret.raised
        /\ ret.start = 0
        /\ ret.end = NPoints(call.traces)

\* It does so whenever the trace has two samples or more.
C14_HoldsForTwoSamples ==
    (/\ Returned("detect_encryption_window") /\ NoneExceeds(call)
     /\ NPoints(call.traces) >= 2) =>
        /\ ~ret.raised
        /\ ret.start = 0
        /\ ret.end = NPoints(call.traces)

SomeExceeds(c) ==
    /\ ~MovingAverageRaises(Activity(c.traces), c.smooth_k)
    /\ ActiveIdxs(MovingAverage(Activity(c.traces), c.smooth_k), c.pre_samples) # {}

\* C15: when the smoothed activity exceeds the threshold somewhere,
\* detect_encryption_window returns (start, end) with 0 <= start < end <= T,
\* and [start, end) holds every index of [0, T) that is at most margin samples
\* away from an index whose activity exceeds the threshold; also for traces
\* shorter than the smoothing kernel.
C15_WindowCoversActivity ==
    (Returned("detect_encryption_window") /\ SomeExceeds(call)) =>
        LET T == NPoints(call.traces)
            idxs == ActiveIdxs(MovingAverage(Activity(call.traces), call.smooth_k),
                               call.pre_samples)
        IN /\ ~ret.raised
           /\ 0 <= ret.start /\ ret.start < ret.end /\ ret.end <= T
           /\ \A j \in idxs : \A i \in 0..(T - 1) :
                 (j - call.margin <= i /\ i <= j + call.margin) =>
                     (ret.start <= i /\ i < ret.end)

\* A trace shorter than the smoothing kernel whose activity exceeds the
\* threshold, and a window that the margin widens at the start and the trace
\* end clamps.
C15_Witness ==
    /\ Returned("detect_encryption_window") /\ SomeExceeds(call)
    /\ NPoints(call.traces) - 1 < call.smooth_k
    /\ call.margin >= 1
    /\ ret.start = 0
    /\ ret.end = NPoints(call.traces)

\* The window of a trace at least as long as the kernel, not clamped at
\* either end.
C15_WitnessUnclamped ==
    /\ Returned("detect_encryption_window") /\ SomeExceeds(call)
    /\ NPoints(call.traces) - 1 >= call.smooth_k
    /\ ret.start >= 1
    /\ ret.end < NPoints(call.traces)

AllAtReference(c) == \A i \in 1..Len(c.event_indices) : c.event_indices[i] = c.ref_index

\* C16: when every event index equals the reference index, align_traces_roll
\* returns its input, sample for sample.
C16_AlignedAtReferenceIsNoOp ==
    (Returned("align_traces_roll") /\ AllAtReference(call)) =>
        ret.aligned = call.traces

\* Two traces with different samples, both with their event at the reference,
\* which is not the first sample.
C16_Witness ==
    /\ Returned("align_traces_roll") /\ AllAtReference(call)
    /\ NRows(call.traces) = 2
    /\ call.ref_index >= 1
    /\ call.traces[1] # call.traces[2]
    /\ call.traces[1][1] # call.traces[1][2]

\* C17: the crop window computed after alignment lies in [0, T] and is as wide
\* as the detected window; it starts at ref_idx - width // 2 when the window
\* placed there lies in the trace, and is otherwise shifted to the end of the
\* trace it would cross.
C17_CropWindowKeepsWidth ==
    Returned("crop_window") =>
        LET width == call.end - call.start
            centred == call.ref_idx - (width \div 2)
            w == ret.window
        IN /\ 0 <= w.start /\ w.start <= w.end /\ w.end <= call.n_points
           /\ w.end - w.start = width
           /\ (centred >= 0 /\ centred + width <= call.n_points) => w.start = centred
           /\ centred < 0 => w.start = 0
           /\ centred + width > call.n_points => w.end = call.n_points

\* A window centred on the reference would cross the end of the trace and is
\* shifted left.
C17_Witness ==
    /\ Returned("crop_window")
    /\ call.ref_idx < call.n_points
    /\ call.ref_idx - ((call.end - call.start) \div 2) >= 1
    /\ call.ref_idx - ((call.end - call.start) \div 2) + (call.end - call.start) > call.n_points
    /\ ret.window.start >= 1

\* The mean of the returned row over the baseline sub-window is 0.
BaselineMeanZero(row, c) ==
    XSum(BaselinePart(row.num, c.baseline_window[1], c.baseline_window[2])) = Fin(0)

\* C19: after crop_baseline_normalize the mean of every trace over the
\* baseline sub-window is 0, for every combination of the options.
C19_BaselineMeanZero ==
    (Returned("crop_baseline_normalize") /\ ~ret.raised) =>
        \A i \in 1..Len(ret.rows) : BaselineMeanZero(ret.rows[i], call)

\* It is 0 when neither detrending nor final smoothing is enabled.
C19_HoldsWithoutDetrendAndSmoothing ==
    (/\ Returned("crop_baseline_normalize") /\ ~ret.raised
     /\ ~call.detrend /\ call.smooth_k <= 1) =>
        \A i \in 1..Len(ret.rows) : BaselineMeanZero(ret.rows[i], call)

\* The standard deviation of the returned row is 1: the row was divided by its
\* deviation sigma, and the variance of what is returned, times sigma * sigma,
\* is sigma * sigma.
StdIsOne(row) ==
    /\ row.normed
    /\ AllFinite(row.num)
    /\ VarNum(Values(row.num)) * row.var.den
          = row.var.num * Len(row.num) * Len(row.num) * row.den * row.den

InputVaries(c, i) == VarNum(Values(Slice(c.traces[i], c.start, c.end))) # 0

\* C20: with normalization enabled, every trace whose input variance is not 0
\* has standard deviation 1 in the returned array, also with final smoothing.
C20_NormalizedStdOne ==
    (Returned("crop_baseline_normalize") /\ ~ret.raised /\ call.normalize) =>
        \A i \in 1..Len(ret.rows) : InputVaries(call, i) => StdIsOne(ret.rows[i])

\* It is 1 without final smoothing.
C20_HoldsWithoutSmoothing ==
    (/\ Returned("crop_baseline_normalize") /\ ~ret.raised /\ call.normalize
     /\ call.smooth_k <= 1) =>
        \A i \in 1..Len(ret.rows) : InputVaries(call, i) => StdIsOne(ret.rows[i])

\* A processed trace the claim calls bad: a sample that is not finite, or no
\* variance.
ClaimedBad(row) ==
    \/ \E j \in 1..Len(row.num) : row.num[j].c # "fin"
    \/ VarNum(Values(row.num)) = 0

\* The indices, in rising order, of the traces that are not bad.
RECURSIVE ClaimedGood(_, _)
ClaimedGood(processed, i) ==
    IF i > Len(processed) THEN <<>>
    ELSE IF ClaimedBad(processed[i]) THEN ClaimedGood(processed, i + 1)
         ELSE <<i>> \o ClaimedGood(processed, i + 1)

\* C18: the bad-trace filter removes exactly the processed traces with a
\* sample that is not finite or with no variance, keeps the others in their
\* order, and removes the entries at the same indices from every metadata
\* array that is present.
C18_FilterRemovesExactlyBadTraces ==
    (Returned("filter_and_save") /\ ~ret.raised) =>
        LET kept == ClaimedGood(ret.processed, 1)
            Filtered(meta, given) ==
                IF given.present /\ Len(given.rows) = NRows(call.waves)
                THEN meta.present /\ meta.rows = kept
                ELSE ~meta.present
        IN /\ ret.waves = [k \in 1..Len(kept) |-> ret.processed[kept[k]]]
           /\ Filtered(ret.plaintexts, call.plaintexts)
           /\ Filtered(ret.ciphertexts, call.ciphertexts)
           /\ Filtered(ret.keys, call.keys)

\* Of two traces the first is removed for an infinite sample and the second is
\* kept, with its plaintext, ciphertext and key.
C18_Witness ==
    /\ Returned("filter_and_save") /\ ~ret.raised
    /\ NRows(call.waves) = 2
    /\ \E j \in 1..NPoints(call.waves) : call.waves[1][j] = PInf
    /\ \A j \in 1..NPoints(call.waves) : call.waves[1][j] # NaN
    /\ Len(ret.waves) = 1
    /\ ret.plaintexts = [present |-> TRUE, rows |-> <<2>>]
    /\ ret.ciphertexts = [present |-> TRUE, rows |-> <<2>>]
    /\ ret.keys = [present |-> TRUE, rows |-> <<2>>]

\* ---- readback failures

\* C21: during readback no failure of an instrument operation of
\* rigol_read_segment aborts the run: the call never raises, and the run never
\* ends with the exception of a segment read.
C21_ReadFailureNeverAborts ==
    prog = "ext" => (rs.pc # "raised" /\ exc # "read_segment")

\* ---- order of the steps

Last(q) == q[Len(q)]

\* C22 as stated: no capture overlaps another; when the device is triggered
\* for a logical trace, the waveforms of every trace before it have been read
\* and accumulated.
C22_CapturesDoNotOverlap ==
    /\ (prog = "cw" /\ cw_computations # <<>>) =>
          Len(appended) >= Last(cw_computations).i - 1
    /\ (prog = "ext" /\ computations # <<>>) =>
          Len(segs) >= (Last(computations).i - 1) * Reps

\* C22 amended.  capture.py: the computations start in the order of the traces
\* and the repetitions; when one is started, every trace before it has been
\* handed to the writer and every earlier repetition of its trace has been
\* accumulated, and its own waveform is accumulated before the next starts.
\* external_capture.py: the computations start in the same order, one after
\* the other, but no waveform is read before the last computation has ended;
\* the waveforms are then read back in segment order.
C22_StepOrder ==
    /\ (prog = "cw" /\ cw_computations # <<>>) =>
          /\ \A k \in 1..(Len(cw_computations) - 1) :
                \/ cw_computations[k].i < cw_computations[k + 1].i
                \/ /\ cw_computations[k].i = cw_computations[k + 1].i
                   /\ cw_computations[k].r < cw_computations[k + 1].r
          /\ Len(appended) >= Last(cw_computations).i - 1
          /\ cw_pc \in {"verify", "retrieve"} =>
                /\ Last(cw_computations) = Capture(i_capture + 1, i_rep + 1)
                /\ Len(waves) = i_rep
                /\ Len(appended) = i_capture
    /\ (prog = "cw" /\ cw_pc = "trigger") =>
          /\ Len(waves) = i_rep
          /\ Len(appended) = i_capture
          /\ \A k \in 1..Len(waves) : waves[k].cap = Capture(i_capture + 1, k)
    /\ (prog = "ext") =>
          /\ \A k \in 1..(Len(computations) - 1) :
                \/ computations[k].i < computations[k + 1].i
                \/ /\ computations[k].i = computations[k + 1].i
                   /\ computations[k].r < computations[k + 1].r
          /\ pc \in {"dut_go", "dut_poll", "dut_read", "sync"} => segs = <<>> /\ rs.pc = "idle"
          /\ (segs # <<>> \/ rs.pc # "idle") => Len(computations) = total_segments
          /\ pc = "readback" => Len(segs) = idx - 1

\* external_capture.py has started its second logical trace while no waveform
\* of the first has been read yet, and later reads them back.
C22_Witness ==
    /\ prog = "ext" /\ pc = "readback"
    /\ Len(computations) >= 2
    /\ Last(computations).i >= 2
    /\ Len(segs) = 1

IsStart(a) ==
    \/ a = RegWrite("REG_DUT_GO", 1)
    \/ a = TriggerToggle

\* C23: in every computation the input and the key are written before the
\* start flag is set; the result register is read only directly after a poll
\* that observed the busy flag cleared; and the value handed back is the one
\* read then.
C23_WriteStartPollRead ==
    /\ \A k \in 1..Len(bus) :
          /\ IsStart(bus[k]) =>
                /\ \E a \in 1..(k - 1) : bus[a].op = "write" /\ bus[a].reg = "REG_DUT_DATAIN"
                /\ \E b \in 1..(k - 1) : bus[b].op = "write" /\ bus[b].reg = "REG_DUT_KEYIN"
          /\ (bus[k].op = "read" /\ bus[k].reg = "REG_DUT_DATAOUT") =>
                /\ k > 1
                /\ bus[k - 1] = RegRead("REG_DUT_GO", 0)
                /\ \E g \in 1..(k - 1) : IsStart(bus[g])
                /\ k = Len(bus)
    /\ (prog = "ext" /\ pc = "dut_read") => Last(bus) = RegRead("REG_DUT_GO", 0)
    /\ (prog = "cw" /\ cw_pc = "retrieve") => Last(bus) = RegRead("REG_DUT_GO", 0)
    /\ (prog = "ext" /\ bus # <<>> /\ Last(bus).reg = "REG_DUT_DATAOUT") =>
          last_ct = Last(bus).val
    /\ (prog = "cw" /\ bus # <<>> /\ Last(bus).reg = "REG_DUT_DATAOUT" /\ i_rep > 0) =>
          dut_io.computed_data = Last(bus).val
    /\ (prog = "cw" /\ cw_pc = "write") => trace.dut_io.computed_data = Last(bus).val

\* A computation whose first poll found the device busy and whose second
\* found it done has ended with the read of the result.
C23_Witness ==
    /\ prog = "ext"
    /\ Len(bus) = 6
    /\ bus[4] = RegRead("REG_DUT_GO", 1)
    /\ bus[5] = RegRead("REG_DUT_GO", 0)
    /\ bus[6] = RegRead("REG_DUT_DATAOUT", Capture(1, 1))
    /\ last_ct = Capture(1, 1)

\* ---- alignment by rotation

\* C24: for a trace of T samples, an event index e and a reference index r in
\* [0, T), align_traces_roll returns the circular rotation with
\* output[(j + r - e) mod T] = input[j] for every j: every input sample is at
\* exactly one output index, none lost and none duplicated.
C24_RollIsRotation ==
    Returned("align_traces_roll") =>
        \A i \in 1..NRows(call.traces) :
            LET T == NPoints(call.traces)
                e == call.event_indices[i]
                r == call.ref_index
                Target(j) == (j + r - e) % T
            IN /\ Len(ret.aligned[i]) = T
               /\ \A j \in 0..(T - 1) : ret.aligned[i][Target(j) + 1] = call.traces[i][j + 1]
               /\ \A j, k \in 0..(T - 1) : Target(j) = Target(k) => j = k
               /\ \A m \in 0..(T - 1) : \E j \in 0..(T - 1) : Target(j) = m

\* A trace of three samples, not all equal, rotated back by one place.
C24_Witness ==
    /\ Returned("align_traces_roll")
    /\ NPoints(call.traces) = 3
    /\ call.ref_index = 0
    /\ call.event_indices[1] = 1
    /\ call.traces[1][1] # call.traces[1][2]
    /\ ret.aligned[1][3] = call.traces[1][1]

\* ---- the read timeout

\* C25: during every data-read attempt of rigol_read_segment, the first and
\* every retry, the instrument timeout is at least RIGOL_READ_TIMEOUT_MS,
\* whatever the timeout was on entry.
C25_EveryAttemptHasLongTimeout ==
    \A k \in 1..Len(rs.attempt_timeouts) :
        rs.attempt_timeouts[k] >= RIGOL_READ_TIMEOUT_MS

\* The first attempt always runs under the long timeout.
C25_HoldsForFirstAttempt ==
    rs.attempt_timeouts # <<>> => rs.attempt_timeouts[1] >= RIGOL_READ_TIMEOUT_MS

\* ---- traces without variance

\* The trace as it reaches the normalization: cropped, baseline removed and,
\* when asked for, detrended.
BeforeNormalize(row, start, end, bw, detrend) ==
    LET based == SubtractBaseline(RowOf(Slice(row, start, end), 1), bw[1], bw[2])
    IN IF detrend THEN Detrend(based) ELSE based

ZeroStd(row) == AllFinite(row.num) /\ VarNum(Values(row.num)) = 0

IsConstant(row) ==
    /\ AllFinite(row.num)
    /\ \A j, k \in 1..Len(row.num) : row.num[j] = row.num[k]

\* C26: a trace whose cropped, baseline-removed and optionally detrended
\* signal has standard deviation exactly 0 is divided by 1.0 by
\* crop_baseline_normalize with normalization enabled: the call raises no
\* division fault and produces no NaN, the returned trace is constant, and the
\* bad-trace filter of preprocess_and_save removes it.
C26_ZeroStdTraceConstantAndRemoved ==
    /\ (Returned("crop_baseline_normalize") /\ call.normalize) =>
          /\ ret.raised <=> (call.detrend /\ DetrendRaises(call.end - call.start))
          /\ ~ret.raised =>
                \A i \in 1..Len(ret.rows) :
                    ZeroStd(BeforeNormalize(call.traces[i], call.start, call.end,
                                            call.baseline_window, call.detrend)) =>
                        /\ ~ret.rows[i].normed
                        /\ IsConstant(ret.rows[i])
                        /\ bad_mask(ret.rows[i])
    /\ (Returned("filter_and_save") /\ ~ret.raised) =>
          \A i \in 1..NRows(call.waves) :
              ZeroStd(BeforeNormalize(call.waves[i], call.start, call.end,
                                      BASELINE_WINDOW, DETREND)) =>
                  /\ IsConstant(ret.processed[i])
                  /\ \A k \in 1..Len(ret.good_idx) : ret.good_idx[k] # i

\* Two traces, the first without variance and the second with: the first is
\* returned constant and not in the saved array, the second is kept.
C26_Witness ==
    /\ Returned("filter_and_save") /\ ~ret.raised
    /\ NRows(call.waves) = 2
    /\ call.waves[1] = [j \in 1..NPoints(call.waves) |-> Fin(1)]
    /\ ZeroStd(BeforeNormalize(call.waves[1], call.start, call.end, BASELINE_WINDOW, DETREND))
    /\ ~ret.processed[1].normed
    /\ ret.processed[2].normed
    /\ ret.good_idx = <<2>>

\* ---- the saved dataset

SavedMeta == {ret.plaintexts, ret.ciphertexts, ret.keys}

\* C27: in every dataset preprocess_and_save writes, every metadata array that
\* is present has exactly as many entries as there are waveforms, also when an
\* input metadata array has another length than the input waveforms and when
\* bad traces were removed.
C27_SavedMetadataMatchesWaves ==
    (Returned("filter_and_save") /\ ~ret.raised) =>
        \A meta \in SavedMeta : meta.present => Len(meta.rows) = Len(ret.waves)

\* The input plaintexts have one entry too many and are left out; one of two
\* traces is removed, and the ciphertexts and keys saved have one entry.
C27_Witness ==
    /\ Returned("filter_and_save") /\ ~ret.raised
    /\ NRows(call.waves) = 2
    /\ call.plaintexts = MetaArray(3)
    /\ ~ret.plaintexts.present
    /\ Len(ret.waves) = 1
    /\ ret.ciphertexts.present /\ Len(ret.ciphertexts.rows) = 1
    /\ ret.keys.present /\ Len(ret.keys.rows) = 1

\* ---- the trace writer after a failed save

OkFlushes == {a \in 1..Len(flushLog) : flushLog[a].ok}

\* C28: when the serialization raises inside the trace writer, the batch still
\* holds every trace appended since the last flush that succeeded, in order,
\* and the counter is unchanged, so that a later flush that succeeds writes all
\* of them under the artifact number of the failed one.
C28_FailedFlushKeepsBatch ==
    prog \in {"writer", "cw"} =>
        /\ file_counter = Cardinality(OkFlushes)
        /\ \A k \in 0..(file_counter - 1) :
              k \in DOMAIN files /\ files[k].state = "complete"
        /\ StoredTraces(file_counter) \o trace_batch = appended
        /\ \A a \in 1..Len(flushLog) :
              /\ ~flushLog[a].ok /\ a < Len(flushLog) => flushLog[a + 1].num = flushLog[a].num
              /\ ~flushLog[a].ok /\ a = Len(flushLog) =>
                    /\ file_counter = flushLog[a].num
                    /\ trace_batch # <<>>
                    /\ trace_batch[Len(trace_batch)] = appended[Len(appended)]

\* A flush of one trace failed and left a partial archive; the flush of the
\* next call succeeded and wrote both traces as artifact 0.
C28_Witness ==
    /\ prog = "writer"
    /\ Len(flushLog) = 2
    /\ ~flushLog[1].ok /\ flushLog[2].ok
    /\ flushLog[1].num = 0 /\ flushLog[2].num = 0
    /\ file_counter = 1
    /\ files[0].state = "complete"
    /\ ArtifactTraces(files[0]) = appended
    /\ Len(appended) = 2
    /\ trace_batch = <<>>

\* ---- the inputs and the output of one logical trace

\* C29: within one logical trace every repetition writes the same input and
\* the same key; the input is drawn once per logical trace, so that the
\* traces' inputs are as many as the traces; and the input and the computed
\* output stored for the trace are the input written and the output read in
\* its last repetition.
C29_OneInputPerLogicalTrace ==
    /\ \A a, b \in 1..Len(dutWrites) :
          /\ dutWrites[a].key = dutWrites[b].key
          /\ dutWrites[a].cap.i = dutWrites[b].cap.i <=> dutWrites[a].data = dutWrites[b].data
    /\ prog = "ext" =>
          /\ Len(dutWrites) = Len(computations)
          /\ \A k \in 1..Len(dutWrites) : dutWrites[k].cap = computations[k]
          /\ \A i \in 1..Len(metas) :
                /\ metas[i].ct = Capture(i, Reps)
                /\ \A k \in 1..Len(dutWrites) :
                      dutWrites[k].cap.i = i =>
                          metas[i].pt = dutWrites[k].data /\ metas[i].key = dutWrites[k].key
    /\ prog = "cw" =>
          /\ Len(dutWrites) = Len(cw_computations)
          /\ \A k \in 1..Len(dutWrites) : dutWrites[k].cap = cw_computations[k]
          /\ \A i \in 1..Len(appended) :
                /\ appended[i].dut_io.computed_data = Capture(i, cw_avg)
                /\ \A k \in 1..Len(dutWrites) :
                      dutWrites[k].cap.i = i => appended[i].dut_io.data = dutWrites[k].data

\* Two logical traces of two repetitions each have been driven and recorded.
C29_Witness ==
    /\ prog = "ext"
    /\ AVERAGE_OVER = 2
    /\ Len(dutWrites) = 4
    /\ Len(metas) = 2
    /\ metas[2].ct = Capture(2, 2)
    /\ dutWrites[3].data = dutWrites[4].data
    /\ dutWrites[1].data # dutWrites[3].data

\* ---- the lock file

\* C30: under every interleaving of lock_fpga calls by two users, once one
\* user's call has written the lock file a call by the other user never
\* overwrites it, and no user is told that the FPGA is locked by them while
\* the lock in the file is the other user's.
C30_LockNeverTakenOver ==
    /\ \A k \in 1..Len(overwrites) : overwrites[k].by = overwrites[k].of
    /\ \A k \in 1..Len(told) : told[k].holder = told[k].user

\* A call that finds the lock of another user in the file returns without
\* writing.
C30_HoldsForCallsThatSeeTheLock ==
    \A u \in Users :
        (lk[u].pc \in {"open", "dump", "chmod", "print"}) => lk[u].lock_data \in {"None", u}

\* ---- Hamming weights

\* The number of 1 bits in the binary representation of a >= 0.
PopCount(a) == Cardinality({k \in 0..HwCap : (a \div (2 ^ k)) % 2 = 1})

HwReturned(fn) == prog = "util" /\ hwCall.fn = fn /\ hwCall.pc = "returned"

\* C31: for every non-negative integer a, hw(a) equals hw_slow(a), the number
\* of 1 bits in the binary representation of a.
C31_HwEqualsHwSlow ==
    /\ (HwReturned("hw") /\ hwCall.a0 >= 0) =>
          /\ hwCall.ret = HwSlowRun(hwCall.a0, 0)
          /\ hwCall.ret = PopCount(hwCall.a0)
    /\ (HwReturned("hw_slow") /\ hwCall.a0 >= 0) =>
          /\ hwCall.ret = HwSlowRun(hwCall.a0, 0)
          /\ hwCall.ret = PopCount(hwCall.a0)

\* hw(257) has gone through two bytes and returned 2.
C31_Witness ==
    /\ HwReturned("hw")
    /\ hwCall.a0 = BYTE + 1
    /\ hwCall.ret = 2

\* C32: hw, hw_slow and hd terminate on every integer input, negative
\* integers included.
C32_EveryCallTerminates == <>(prog = "util" => hwCall.pc = "returned")

NonNegativeCall ==
    /\ hwCall.a0 >= 0
    /\ hwCall.b0 >= 0

\* Calls on non-negative integers terminate.
C32_HoldsForNonNegativeInputs ==
    (prog = "util" /\ NonNegativeCall) ~> (hwCall.pc = "returned")
====
